---- MODULE Spec2Model ----
(***************************************************************************)
(* A model of the C#/Rust bridge of the driver: the ownership-typed        *)
(* pointers of ffi.rs (the shared-heap discipline ArcFFI), the async task  *)
(* bridge of task.rs (BridgedFuture::spawn) and the exported session       *)
(* functions of session.rs that use them.                                  *)
(*                                                                         *)
(* Addresses are never reused: every Arc::new gets a fresh address.  The   *)
(* content of a released allocation is indeterminate: every read of it     *)
(* yields any value of Garbage.                                            *)
(***************************************************************************)
EXTENDS Integers, Sequences, FiniteSets, TLC

\* ------------------------------------------------------------------ bounds

\* Number of Task Control Blocks the foreign side creates (one per call).
MaxTasks == 2

\* Largest value read from the count field of a released allocation.
MaxGarbage == 1

Tasks == 1..MaxTasks
Addrs == 1..MaxTasks
Garbage == 0..MaxGarbage

\* ------------------------------------------------------------------- texts

\* A text is a sequence of bytes; NUL is the byte 0.
NUL == 0
Boom == <<98, 111, 111, 109>>
TextA == <<97>>
TextNul == <<97, NUL, 98>>
Texts == {TextA, Boom, TextNul}

\* "Weird panic with non-string payload" (task.rs:102)
WeirdPanicMsg ==
    <<87, 101, 105, 114, 100, 32, 112, 97, 110, 105, 99, 32, 119, 105, 116,
      104, 32, 110, 111, 110, 45, 115, 116, 114, 105, 110, 103, 32, 112, 97,
      121, 108, 111, 97, 100>>

Range(s) == {s[i] : i \in 1..Len(s)}

\* s contains sub as a contiguous subsequence.
Contains(s, sub) ==
    \E i \in 0..(Len(s) - Len(sub)) :
        \A j \in 1..Len(sub) : s[i + j] = sub[j]

\* What the foreign side reads through a *const c_char: the bytes before the
\* first NUL.
CStrRead(bytes) ==
    LET nuls == {i \in 1..Len(bytes) : bytes[i] = NUL}
    IN  IF nuls = {} THEN bytes
        ELSE LET first == CHOOSE i \in nuls : \A j \in nuls : i <= j
             IN  SubSeq(bytes, 1, first - 1)

\* CString::new: an interior NUL is an error, otherwise the bytes get a NUL
\* terminator.
CStringNew(text) ==
    IF NUL \in Range(text)
    THEN [ok |-> FALSE, bytes |-> <<>>]
    ELSE [ok |-> TRUE, bytes |-> text \o <<NUL>>]

\* ---------------------------------------------------------------- pointers

NULL == 0
None == 0

Pointees == {"BridgedSession", "BridgedPreparedStatement", "RowSet"}

\* BridgedPtr::from_raw: NonNull::new(raw), the pointee type kept.
FromRaw(raw, ty) == [ptr |-> raw, pointee |-> ty]

\* BridgedPtr::null
NullPtr(ty) == [ptr |-> None, pointee |-> ty]

\* BridgedPtr::is_null
IsNull(p) == p.ptr = None

\* BridgedPtr::to_raw
ToRaw(p) == p.ptr

\* BridgedPtr::cast_to_void: the same address, the pointee type erased.
CastToVoid(p) == [ptr |-> p.ptr, pointee |-> "c_void"]

\* The foreign side undoes the cast: it knows the pointee from the call.
CastFromVoid(p, ty) == [ptr |-> p.ptr, pointee |-> ty]

\* -------------------------------------------------------------- Arc, heap

\* One ArcInner: the strong count, the number of threads that saw the count
\* drop to zero and still have to run drop_slow (pend), the number of times
\* the allocation was released (rel), the value and its type.
FreeCell == [strong |-> 0, pend |-> 0, rel |-> 0, val |-> "none", ty |-> "none"]

Values == {"v1", "v2"}

\* Arc::new(v) at the fresh address a: one strong owner.
ArcNew(h, a, v, ty) ==
    [h EXCEPT ![a] = [strong |-> 1, pend |-> 0, rel |-> 0, val |-> v, ty |-> ty]]

\* The value the atomic count of a holds for a reader; g is what a read of
\* released memory happens to return.
ReadStrong(h, a, g) == IF h[a].rel > 0 THEN g ELSE h[a].strong

\* strong.fetch_add(1): a write into released memory is not tracked.
FetchAdd(h, a) ==
    IF h[a].rel > 0 THEN h ELSE [h EXCEPT ![a].strong = @ + 1]

\* strong.fetch_sub(1), and, when the old value was 1, the commitment to run
\* drop_slow (Arc's Drop).
FetchSub(h, a, g) ==
    LET old == ReadStrong(h, a, g)
        h1 == IF h[a].rel > 0 THEN h ELSE [h EXCEPT ![a].strong = @ - 1]
    IN  IF old = 1 THEN [h1 EXCEPT ![a].pend = @ + 1] ELSE h1

\* Arc::drop_slow: the value is dropped and the allocation released.
DropSlow(h, a) ==
    [h EXCEPT ![a].pend = @ - 1, ![a].rel = @ + 1, ![a].strong = 0]

\* ArcFFI::as_ptr (Arc::as_ptr): a borrowed pointer, the Arc untouched.
ArcAsPtr(h, arc) == [heap |-> h, out |-> FromRaw(arc, h[arc].ty)]

\* A faulty into_ptr: the pointer is taken with Arc::as_ptr and the Arc is
\* dropped.
ArcIntoPtrDropping(h, arc) ==
    [heap |-> FetchSub(h, arc, 0), out |-> FromRaw(arc, h[arc].ty)]

\* ArcFFI::into_ptr (Arc::into_raw): the Arc's count unit moves into the
\* pointer.
ArcIntoPtr(h, arc) == [heap |-> h, out |-> FromRaw(arc, h[arc].ty)]

\* A faulty from_ptr: it increments the count as cloned_from_ptr does.
ArcFromPtrCloning(h, p) ==
    IF ToRaw(p) = None THEN [heap |-> h, out |-> None]
    ELSE [heap |-> FetchAdd(h, ToRaw(p)), out |-> ToRaw(p)]

\* ArcFFI::from_ptr (Arc::from_raw): None for a null pointer.
ArcFromPtr(h, p) ==
    IF ToRaw(p) = None THEN [heap |-> h, out |-> None]
    ELSE [heap |-> h, out |-> ToRaw(p)]

\* A faulty cloned_from_ptr: Arc::from_raw without the increment.
ArcClonedNoIncrement(h, p) ==
    IF ToRaw(p) = None THEN [heap |-> h, out |-> None]
    ELSE [heap |-> h, out |-> ToRaw(p)]

\* ArcFFI::cloned_from_ptr: Arc::increment_strong_count, then Arc::from_raw.
ArcClonedFromPtr(h, p) ==
    IF ToRaw(p) = None THEN [heap |-> h, out |-> None]
    ELSE [heap |-> FetchAdd(h, ToRaw(p)), out |-> ToRaw(p)]

\* Dropping an Option<Arc<T>>.
ArcDrop(h, arc, g) == IF arc = None THEN h ELSE FetchSub(h, arc, g)

\* ArcFFI::free: drop(ArcFFI::from_ptr(ptr)).
ArcFree(h, p, g) ==
    LET r == ArcFromPtr(h, p) IN ArcDrop(r.heap, r.out, g)


\* ------------------------------------------------------------------- state

VARIABLES
    pc,         \* per Task Control Block: where its exported call and its
                \* spawned task are
    kind,       \* the exported function that consumed the block
    arg,        \* the borrowed session pointer the call was given
    holds,      \* the Arc<BridgedSession> captured by the spawned future
    result,     \* what catch_unwind returned for the work
    calls,      \* per completion handle (tcs): the callbacks invoked with it
    heap,       \* the Arc allocations
    nextAddr,   \* the next fresh address
    owned,      \* the owned shared pointers handed to the foreign side
    freeCalled, \* the addresses the foreign side has passed to a free function
    incLive     \* per block: whether the pointee was still allocated with a
                \* nonzero count when cloned_from_ptr incremented it

vars == <<pc, kind, arg, holds, result, calls, heap, nextAddr, owned,
          freeCalled, incLive>>

\* The Tcb the foreign side builds for its t-th call (task.rs:37-41). A
\* callback address is a pair: which of the two functions it is, and the call
\* whose block carried it, so that the addresses of two blocks differ.
Tcb(t) ==
    [tcs |-> t, complete_task |-> <<"complete", t>>,
     fail_task |-> <<"fail", t>>]

NoResult == [tag |-> "none", val |-> "none", text |-> <<>>, pk |-> "none"]
OkResult(v) == [tag |-> "Ok", val |-> v, text |-> <<>>, pk |-> "none"]
ErrResult(e) == [tag |-> "Err", val |-> "none", text |-> e, pk |-> "none"]
PanicResult(k, m) == [tag |-> "Panic", val |-> "none", text |-> m, pk |-> k]

\* The outcomes of a unit of work: a value, a domain error with its Display
\* text, or a panic whose payload is a &str, a String or something else.
Outcomes ==
    {OkResult(v) : v \in Values}
    \cup {ErrResult(e) : e \in Texts}
    \cup {PanicResult(k, m) : k \in {"str", "String"}, m \in Texts}
    \cup {PanicResult("other", <<>>)}

\* The type of the value each exported function's work produces.
ResultType(k) ==
    CASE k = "create" -> "BridgedSession"
      [] k = "prepare" -> "BridgedPreparedStatement"
      [] OTHER -> "RowSet"

\* The foreign side uses a fresh block for every call; blocks are taken in
\* order.
FreshTcb(t) == pc[t] = "unused" /\ \A u \in Tasks : u < t => pc[u] # "unused"

\* The session pointers the foreign side may pass: owned pointers it has not
\* yet passed to session_free.
UsableSessions ==
    {p \in owned : p.pointee = "BridgedSession" /\ p.ptr \notin freeCalled}


\* ---------------------------------------------------------------- session.rs

\* session_create: the uri is copied and the work spawned.
SessionCreate(t) ==
    /\ FreshTcb(t)
    /\ pc' = [pc EXCEPT ![t] = "running"]
    /\ kind' = [kind EXCEPT ![t] = "create"]
    /\ UNCHANGED <<arg, holds, result, calls, heap, nextAddr, owned,
                   freeCalled, incLive>>

\* session_prepare, up to the copy of the statement text: the call has
\* received its borrowed session pointer.
SessionPrepareEnter(t, p) ==
    /\ FreshTcb(t)
    /\ p \in UsableSessions
    /\ pc' = [pc EXCEPT ![t] = "entered"]
    /\ kind' = [kind EXCEPT ![t] = "prepare"]
    /\ arg' = [arg EXCEPT ![t] = p]
    /\ UNCHANGED <<holds, result, calls, heap, nextAddr, owned, freeCalled,
                   incLive>>

\* session_query, up to the copy of the statement text.
SessionQueryEnter(t, p) ==
    /\ FreshTcb(t)
    /\ p \in UsableSessions
    /\ pc' = [pc EXCEPT ![t] = "entered"]
    /\ kind' = [kind EXCEPT ![t] = "query"]
    /\ arg' = [arg EXCEPT ![t] = p]
    /\ UNCHANGED <<holds, result, calls, heap, nextAddr, owned, freeCalled,
                   incLive>>

\* Whether the allocation at a still has its value and a nonzero count.
Live(h, a) == h[a].rel = 0 /\ h[a].strong >= 1

\* The rest of session_prepare / session_query: the session is cloned from
\* the borrowed pointer and the work spawned with the clone.
SessionCloneAndSpawn(t) ==
    /\ pc[t] = "entered"
    /\ LET r == ArcClonedFromPtr(heap, arg[t])
       IN  /\ heap' = r.heap
           /\ holds' = [holds EXCEPT ![t] = r.out]
    /\ incLive' = [incLive EXCEPT ![t] =
                      IF Live(heap, ToRaw(arg[t])) THEN "live" ELSE "dead"]
    /\ pc' = [pc EXCEPT ![t] = "running"]
    /\ UNCHANGED <<kind, arg, result, calls, nextAddr, owned, freeCalled>>

\* session_free / row_set_free: ArcFFI::free of the owned pointer.  The
\* foreign side passes each owned pointer once.
SessionFree(p, g) ==
    /\ p \in owned
    /\ p.pointee = "BridgedSession"
    /\ p.ptr \notin freeCalled
    /\ heap' = ArcFree(heap, p, g)
    /\ freeCalled' = freeCalled \cup {p.ptr}
    /\ UNCHANGED <<pc, kind, arg, holds, result, calls, nextAddr, owned,
                   incLive>>

RowSetFree(p, g) ==
    /\ p \in owned
    /\ p.pointee = "RowSet"
    /\ p.ptr \notin freeCalled
    /\ heap' = ArcFree(heap, p, g)
    /\ freeCalled' = freeCalled \cup {p.ptr}
    /\ UNCHANGED <<pc, kind, arg, holds, result, calls, nextAddr, owned,
                   incLive>>

\* The thread whose decrement saw the count drop to zero releases the
\* allocation.
RunDropSlow(a) ==
    /\ heap[a].pend > 0
    /\ heap' = DropSlow(heap, a)
    /\ UNCHANGED <<pc, kind, arg, holds, result, calls, nextAddr, owned,
                   freeCalled, incLive>>

\* ------------------------------------------------------------------ task.rs

\* The work settles: catch_unwind returns its outcome, and the future with
\* what it captured (the session clone) is dropped.
Settle(t, o, g) ==
    /\ pc[t] = "running"
    /\ result' = [result EXCEPT ![t] = o]
    /\ heap' = ArcDrop(heap, holds[t], g)
    /\ holds' = [holds EXCEPT ![t] = None]
    /\ pc' = [pc EXCEPT ![t] = "settled"]
    /\ UNCHANGED <<kind, arg, calls, nextAddr, owned, freeCalled, incLive>>

\* E's Display text (err.to_string()).
ErrToString(r) == r.text

\* A faulty extraction that downcasts to &str only.
PanicMsgStrOnly(r) ==
    IF r.pk = "str" THEN r.text ELSE WeirdPanicMsg

\* A faulty extraction without the fallback text.
PanicMsgNoFallback(r) == r.text

\* The message taken from a panic payload (task.rs:97-103).
PanicMsg(r) ==
    IF r.pk = "str" THEN r.text
    ELSE IF r.pk = "String" THEN r.text
    ELSE WeirdPanicMsg

\* A faulty report that keeps the callbacks of the first block it saw instead
\* of those moved into the task.
CompleteCallFirstBlock(tcb, ptr, h) ==
    [fn |-> <<"complete", 1>>, tcs |-> 1, ptr |-> ptr, msg |-> <<>>,
     strong |-> h[ptr.ptr].strong, val |-> h[ptr.ptr].val]

\* One callback invocation as the foreign side sees it; strong and val are
\* the pointee's count and value at the moment of the call.
CompleteCall(tcb, ptr, h) ==
    [fn |-> tcb.complete_task, tcs |-> tcb.tcs, ptr |-> ptr, msg |-> <<>>,
     strong |-> h[ptr.ptr].strong, val |-> h[ptr.ptr].val]

FailCall(tcb, bytes) ==
    [fn |-> tcb.fail_task, tcs |-> tcb.tcs, ptr |-> NullPtr("c_void"),
     msg |-> CStrRead(bytes), strong |-> 0, val |-> "none"]

\* The text reported for a settled result that is not a value.
FailText(r) == IF r.tag = "Err" THEN ErrToString(r) ELSE PanicMsg(r)

\* The match of spawn's task on a value: Arc::new, into_ptr, cast_to_void,
\* complete_task.
ReportOk(t) ==
    /\ pc[t] = "settled"
    /\ result[t].tag = "Ok"
    /\ LET a == nextAddr
           h1 == ArcNew(heap, a, result[t].val, ResultType(kind[t]))
           r == ArcIntoPtr(h1, a)
           ptr == CastToVoid(r.out)
       IN  /\ heap' = r.heap
           /\ calls' = [calls EXCEPT ![Tcb(t).tcs] =
                           Append(@, CompleteCall(Tcb(t), ptr, r.heap))]
           /\ owned' = owned \cup {CastFromVoid(ptr, ResultType(kind[t]))}
    /\ nextAddr' = nextAddr + 1
    /\ pc' = [pc EXCEPT ![t] = "finished"]
    /\ UNCHANGED <<kind, arg, holds, result, freeCalled, incLive>>

\* The match on a domain error or a panic: CString::new(..).unwrap(), then
\* fail_task.
ReportFail(t) ==
    /\ pc[t] = "settled"
    /\ result[t].tag \in {"Err", "Panic"}
    /\ CStringNew(FailText(result[t])).ok
    /\ calls' = [calls EXCEPT ![Tcb(t).tcs] =
                    Append(@, FailCall(Tcb(t), CStringNew(FailText(result[t])).bytes))]
    /\ pc' = [pc EXCEPT ![t] = "finished"]
    /\ UNCHANGED <<kind, arg, holds, result, heap, nextAddr, owned,
                   freeCalled, incLive>>

\* CString::new found an interior NUL: unwrap panics outside catch_unwind and
\* the task ends without a callback.
ReportUnwrapPanics(t) ==
    /\ pc[t] = "settled"
    /\ result[t].tag \in {"Err", "Panic"}
    /\ ~CStringNew(FailText(result[t])).ok
    /\ pc' = [pc EXCEPT ![t] = "aborted"]
    /\ UNCHANGED <<kind, arg, holds, result, calls, heap, nextAddr, owned,
                   freeCalled, incLive>>


\* ------------------------------------------------------------- properties

Ended(t) == pc[t] \in {"finished", "aborted"}

OnlyFn(t, f) == \A i \in 1..Len(calls[t]) : calls[t][i].fn[1] = f

\* C1: for every spawn, exactly one of complete_task and fail_task is
\* invoked, exactly once: never more than one call per block, and one call
\* once the spawned task has ended, whatever the outcome of the work.
C1_ExactlyOneCallbackOnce ==
    \A t \in Tasks :
        /\ Len(calls[t]) <= 1
        /\ Ended(t) => Len(calls[t]) = 1

\* C2: work that completes with Ok(V) has complete_task invoked exactly once,
\* with a non-null owned pointer that imports (from_ptr after undoing the
\* cast) to an allocation holding V with a strong count of one; fail_task is
\* never invoked.
C2_OkCompletesWithImportablePointer ==
    \A t \in Tasks :
        result[t].tag = "Ok" =>
            /\ Len(calls[t]) <= 1
            /\ OnlyFn(t, "complete")
            /\ pc[t] = "finished" =>
                /\ Len(calls[t]) = 1
                /\ LET c == calls[t][1]
                       p == CastFromVoid(c.ptr, ResultType(kind[t]))
                       imp == ArcFromPtr(heap, p)
                   IN  /\ c.tcs = t
                       /\ c.ptr.pointee = "c_void"
                       /\ imp.out # None
                       /\ heap[imp.out].ty = ResultType(kind[t])
                       /\ heap[imp.out].val = result[t].val
                       /\ c.val = result[t].val
                       /\ c.strong = 1
                       /\ \A u \in Tasks \ {t} :
                              \A i \in 1..Len(calls[u]) :
                                  calls[u][i].ptr.ptr # c.ptr.ptr

C2_Witness ==
    \E t \in Tasks :
        /\ result[t] = OkResult("v2")
        /\ pc[t] = "finished"
        /\ Len(calls[t]) = 1

\* C3: work that panics with the message "boom", as a &str or a String
\* payload, has fail_task invoked exactly once with a message containing
\* "boom"; complete_task is never invoked.
C3_BoomPanicFailsWithBoom ==
    \A t \in Tasks :
        (result[t].tag = "Panic" /\ result[t].pk \in {"str", "String"}
            /\ result[t].text = Boom) =>
            /\ Len(calls[t]) <= 1
            /\ OnlyFn(t, "fail")
            /\ Ended(t) =>
                /\ Len(calls[t]) = 1
                /\ calls[t][1].tcs = t
                /\ Contains(calls[t][1].msg, Boom)

C3_Witness ==
    \E t, u \in Tasks :
        /\ result[t] = PanicResult("String", Boom)
        /\ result[u] = PanicResult("str", Boom)
        /\ pc[t] = "finished"
        /\ pc[u] = "finished"

\* C4: work that yields Err(E) has fail_task invoked exactly once with E's
\* Display text, for every text; complete_task is never invoked.
C4_ErrFailsWithDisplayText ==
    \A t \in Tasks :
        result[t].tag = "Err" =>
            /\ Len(calls[t]) <= 1
            /\ OnlyFn(t, "fail")
            /\ Ended(t) =>
                /\ Len(calls[t]) = 1
                /\ calls[t][1].msg = ErrToString(result[t])

\* C5: no fault raised while a spawned task runs, in the work or while the
\* bridge reports its outcome, escapes the task: every panic of the work is
\* reported through fail_task, and no task ends by a panic.
C5_NoFaultEscapesTheTask ==
    \A t \in Tasks :
        /\ pc[t] # "aborted"
        /\ (result[t].tag = "Panic" /\ Ended(t)) =>
               (Len(calls[t]) = 1 /\ OnlyFn(t, "fail"))

\* C6: a unit whose work has settled leaves that state only into a terminal
\* state in which its one callback has been invoked, and a terminal unit
\* neither leaves its state nor reports again.
C6_SettledUnitEndsReported ==
    [][\A t \in Tasks :
          /\ (pc[t] = "settled" /\ pc'[t] # "settled") =>
                 (pc'[t] = "finished" /\ Len(calls'[t]) = 1)
          /\ pc[t] = "finished" =>
                 (pc'[t] = "finished" /\ calls'[t] = calls[t])]_vars


\* The owned pointers the foreign side still holds: received and not yet
\* passed to a free function.
Outstanding(a) == (\E p \in owned : p.ptr = a) /\ a \notin freeCalled

\* The native strong handles to a.
Handles(a) == {t \in Tasks : holds[t] = a}

\* C7: from_ptr(into_ptr(v)) is the allocation v with its value and count
\* untouched, and cloned_from_ptr followed by freeing the clone leaves the
\* count (and the release state) of the allocation as it was.
C7_RoundTripAndCloneFreeBalance ==
    \A a \in Addrs :
        Live(heap, a) =>
            LET e == ArcIntoPtr(heap, a)
                i == ArcFromPtr(e.heap, e.out)
                c == ArcClonedFromPtr(heap, e.out)
                x == ArcIntoPtr(c.heap, c.out)
                f == ArcFree(x.heap, x.out, 0)
            IN  /\ i.out = a
                /\ i.heap = heap
                /\ c.out = a
                /\ f = heap

\* A session was exported, cloned by a call and the clone dropped again, the
\* foreign side still holding its owned pointer.
C7_Witness ==
    \E t \in Tasks :
        /\ incLive[t] = "live"
        /\ pc[t] = "finished"
        /\ Outstanding(ToRaw(arg[t]))
        /\ Live(heap, ToRaw(arg[t]))
        /\ heap[ToRaw(arg[t])].strong = 1

\* C8: on the strong count of a live allocation, into_ptr, as_ptr and
\* from_ptr have no effect, cloned_from_ptr adds exactly one and free takes
\* exactly one; no other allocation is touched, and on a null pointer
\* from_ptr, cloned_from_ptr and free change nothing.
C8_CountEffectOfEachOperation ==
    /\ \A a \in Addrs :
           Live(heap, a) =>
               LET p == FromRaw(a, heap[a].ty)
                   n == heap[a].strong
                   Others(h) == \A b \in Addrs \ {a} : h[b] = heap[b]
               IN  /\ ArcIntoPtr(heap, a).heap[a].strong = n
                   /\ ArcAsPtr(heap, a).heap[a].strong = n
                   /\ ArcFromPtr(heap, p).heap[a].strong = n
                   /\ ArcClonedFromPtr(heap, p).heap[a].strong = n + 1
                   /\ ArcFree(heap, p, 0)[a].strong = n - 1
                   /\ Others(ArcIntoPtr(heap, a).heap)
                   /\ Others(ArcAsPtr(heap, a).heap)
                   /\ Others(ArcFromPtr(heap, p).heap)
                   /\ Others(ArcClonedFromPtr(heap, p).heap)
                   /\ Others(ArcFree(heap, p, 0))
    /\ \A ty \in Pointees, g \in Garbage :
           /\ ArcFromPtr(heap, NullPtr(ty)) = [heap |-> heap, out |-> None]
           /\ ArcClonedFromPtr(heap, NullPtr(ty)) = [heap |-> heap, out |-> None]
           /\ ArcFree(heap, NullPtr(ty), g) = heap

\* An exported session was cloned by a call and then freed by the foreign
\* side: the clone is the one owner left.
C8_Witness ==
    \E t \in Tasks, a \in Addrs :
        /\ incLive[t] = "live"
        /\ holds[t] = a
        /\ a \in freeCalled
        /\ Live(heap, a)
        /\ heap[a].strong = 1

\* C9: with every owned pointer freed at most once, an allocation is
\* released at most once, only after its count reached zero, and never while
\* an owned pointer or a native strong handle to it is outstanding.
C9_ReleasedExactlyAtZero ==
    \A a \in Addrs :
        /\ heap[a].rel <= 1
        /\ heap[a].rel >= 1 => (~Outstanding(a) /\ Handles(a) = {})

\* C10: whenever cloned_from_ptr increments the count of a non-null pointer,
\* the pointee is still allocated and its count has not reached zero.
C10_CloneIncrementsLiveCount ==
    \A t \in Tasks : incLive[t] # "dead"

\* C21: every callback invocation made for a spawn call carries the tcs of the
\* Tcb passed to that same call and goes to one of that Tcb's two callback
\* addresses, never to those of another call; a Tcb is used for at most one
\* invocation, whatever the order in which the tasks report.
C21_CallbackUsesItsOwnTcb ==
    \A t \in Tasks :
        /\ Len(calls[t]) <= 1
        /\ \A i \in 1..Len(calls[t]) :
              /\ calls[t][i].tcs = Tcb(t).tcs
              /\ calls[t][i].fn \in {Tcb(t).complete_task, Tcb(t).fail_task}

\* The later call has reported while the earlier one is still running, and
\* then both have reported.
C21_Witness ==
    \E t, u \in Tasks :
        /\ t < u
        /\ pc[u] = "finished"
        /\ Len(calls[u]) = 1
        /\ calls[u][1].fn = Tcb(u).complete_task
        /\ pc[t] = "running"
        /\ calls[t] = <<>>

\* C22: work that panics with a payload that is neither a &str nor a String
\* has fail_task invoked exactly once, with the text "Weird panic with
\* non-string payload"; complete_task is never invoked.
C22_OtherPayloadFailsWithFallback ==
    \A t \in Tasks :
        (result[t].tag = "Panic" /\ result[t].pk = "other") =>
            /\ Len(calls[t]) <= 1
            /\ OnlyFn(t, "fail")
            /\ pc[t] # "aborted"
            /\ pc[t] = "finished" =>
                /\ Len(calls[t]) = 1
                /\ calls[t][1].tcs = t
                /\ calls[t][1].msg = WeirdPanicMsg

C22_Witness ==
    \E t \in Tasks :
        /\ result[t].tag = "Panic"
        /\ result[t].pk = "other"
        /\ pc[t] = "finished"
        /\ Len(calls[t]) = 1

\* C31: a session on which a unit of work was spawned stays allocated until
\* that unit has settled, whether or not session_free was called meanwhile,
\* and a session is released at most once, only after session_free was
\* called on its owned pointer and no unsettled unit holds a clone of it.
C31_SessionOutlivesItsWork ==
    /\ \A t \in Tasks :
          (pc[t] = "running" /\ holds[t] # None) => heap[holds[t]].rel = 0
    /\ \A a \in Addrs :
          heap[a].ty = "BridgedSession" =>
              /\ heap[a].rel <= 1
              /\ heap[a].rel >= 1 => (a \in freeCalled /\ Handles(a) = {})

\* ------------------------------------------- exclusive heap objects (BoxFFI)
\* PreSerializedValues and ColumnType objects live in a Box; the foreign side
\* holds their raw addresses and passes them back to the exported functions
\* of pre_serialized_values.rs, session.rs and row_set.rs.

\* The number of Box allocations followed.
MaxBoxes == 2

\* The number of pre-serialized cells a value list is followed up to.
MaxCells == 1

\* The Box addresses: one beyond the boxes the program exports by itself, so
\* that both children of a map fit.
BoxAddrs == 1..(MaxBoxes + 1)

\* ColumnType values: two native types and the six types that carry a handle.
ColumnTypes ==
    {"Int", "Text", "List", "Set", "Map", "Vector", "Tuple", "Udt"}

\* The element type of a list, of a set, and the key and value types of a map,
\* as the match arms of the child accessors see them: empty for any other
\* type, a vector included.
ListElement(ct) == IF ct = "List" THEN <<"Int">> ELSE <<>>

SetElement(ct) == IF ct = "Set" THEN <<"Text">> ELSE <<>>

MapChildren(ct) == IF ct = "Map" THEN <<"Int", "Text">> ELSE <<>>

\* The field types of the tuple type and of the user-defined type.
TupleFields(ct) == IF ct = "Tuple" THEN <<"Int", "Text">> ELSE <<>>

UdtFields(ct) == IF ct = "Udt" THEN <<"Int">> ELSE <<>>

\* column_type_to_code.
column_type_to_code(ct) ==
    CASE ct = "Int" -> 9
      [] ct = "Text" -> 10
      [] ct = "List" -> 32
      [] ct = "Map" -> 33
      [] ct = "Set" -> 34
      [] ct = "Vector" -> 32
      [] ct = "Udt" -> 48
      [] ct = "Tuple" -> 49
      [] OTHER -> 0

\* A Box allocation: st is unalloc, live or released; val is the ColumnType
\* or "values"; cells counts the cells of a PreSerializedValues.
NoBox == [st |-> "unalloc", ty |-> "none", val |-> "none", cells |-> 0]

\* Box::new.
BoxNew(b, a, ty, v) ==
    [b EXCEPT ![a] = [st |-> "live", ty |-> ty, val |-> v, cells |-> 0]]

\* BoxFFI::into_ptr: Box::into_raw, the value stays allocated.
BoxIntoPtr(b, a) == FromRaw(a, b[a].ty)

\* BoxFFI::from_ptr: the owner of the allocation, or None for null.
BoxFromPtr(p) == IF IsNull(p) THEN None ELSE ToRaw(p)

\* BoxFFI::as_ref / as_mut_ref: the address referred to, or None for null.
BoxAsRef(p) == IF IsNull(p) THEN None ELSE ToRaw(p)

BoxAsMutRef(p) == IF IsNull(p) THEN None ELSE ToRaw(p)

\* Dropping a Box releases its allocation.
BoxDrop(b, a) == IF a = None THEN b ELSE [b EXCEPT ![a].st = "released"]

\* BoxFFI::free: the pointer is imported and the Box dropped.
BoxFree(b, p) == BoxDrop(b, BoxFromPtr(p))

\* A faulty as_ref that takes the Box and drops it when the call ends.
BoxAsRefEndsDropping(b, p) == BoxFree(b, p)

\* BoxFFI::as_ref lends the value for the call: when the reference ends the
\* allocation is as it was.
BoxAsRefEnds(b, p) == b

\* Reading the ColumnType behind a reference: the value while the allocation
\* is live, anything once it has been released.
BoxRead(b, a, g) == IF b[a].st = "live" THEN b[a].val ELSE g

VARIABLES
    box,        \* the Box allocations
    nextBox,    \* the next address Box::new returns
    known,      \* the pointers handed to the foreign side
    imported,   \* the addresses BoxFFI::from_ptr has turned back into a Box
    inflight,   \* the value lists owned by spawned work
    last,       \* the last exported call: function, pointer, result, fault
    crashed,    \* a panic left an extern "C" function: the process aborted
    drops       \* per address: the outcomes of the spawned works that dropped
                \* the value list they owned

VARIABLES
    child       \* what the last call, if a child accessor, saw and wrote

tiVars == <<child>>

boxVars == <<box, nextBox, known, imported, inflight, last, crashed, drops>>

\* How a spawned query ends: with a row set, with a domain error, or by a
\* panic that catch_unwind turns into a failure.
WorkOutcomes == {"Ok", "Err", "Panic"}

\* The drops of one address that are followed.
MaxDrops == 2

\* One exported call as the foreign side sees it.  bad tells that an
\* argument had a wrong shape (a null pointer, an index out of range); fault
\* is none, panic or null_write; stale tells that the call imported, freed or
\* dereferenced an address that had been imported before; out is the handle
\* written through an output pointer.
BoxCall(fn, p, bad, ret, fault, out) ==
    [fn |-> fn, ptr |-> p, bad |-> bad, ret |-> ret, fault |-> fault,
     stale |-> (~IsNull(p) /\ ToRaw(p) \in imported), out |-> out]

NoHandle == NullPtr("ColumnType")

\* The pointers of one pointee type the foreign side can pass: every address
\* it has received, and null.
Passable(ty) == {p \in known : p.pointee = ty} \cup {NullPtr(ty)}

\* pre_serialized_values_new.
pre_serialized_values_new ==
    /\ ~crashed
    /\ nextBox <= MaxBoxes
    /\ LET b1 == BoxNew(box, nextBox, "PreSerializedValues", "values")
           p == BoxIntoPtr(b1, nextBox)
       IN  /\ box' = b1
           /\ known' = known \cup {p}
           /\ last' = BoxCall("pre_serialized_values_new", p, FALSE, 0, "none", NoHandle)
    /\ nextBox' = nextBox + 1
    /\ UNCHANGED <<imported, inflight, crashed>>

\* pre_serialized_values_add_value / _add_null / _add_unset: a null builder
\* is skipped, any other is written through.
pre_serialized_values_add(p, k) ==
    /\ ~crashed
    /\ LET r == BoxAsMutRef(p)
       IN  /\ IF r = None THEN TRUE
              ELSE IF box[r].st # "live" THEN TRUE
              ELSE box[r].cells < MaxCells
           /\ box' = IF r # None /\ box[r].st = "live"
                     THEN [box EXCEPT ![r].cells = @ + 1]
                     ELSE box
           /\ last' = BoxCall(k, p, IsNull(p), 0, "none", NoHandle)
    /\ UNCHANGED <<nextBox, known, imported, inflight, crashed>>

\* session_query_with_values: the session is cloned, then the value list is
\* imported and moved into the spawned work.  A null session or a null
\* value list panics in unwrap / expect.
session_query_with_values(sessionNull, p) ==
    /\ ~crashed
    /\ IF sessionNull \/ BoxFromPtr(p) = None
       THEN /\ crashed' = TRUE
            /\ last' = BoxCall("session_query_with_values", p, TRUE, 0,
                             "panic", NoHandle)
            /\ UNCHANGED <<imported, inflight>>
       ELSE /\ imported' = imported \cup {BoxFromPtr(p)}
            /\ inflight' = inflight \cup {BoxFromPtr(p)}
            /\ last' = BoxCall("session_query_with_values", p, FALSE, 0,
                             "none", NoHandle)
            /\ UNCHANGED crashed
    /\ UNCHANGED <<box, nextBox, known>>

\* The spawned query settles and its future, with the value list, is
\* dropped.
QueryWorkSettles(a, o) ==
    /\ ~crashed
    /\ a \in inflight
    /\ Len(drops[a]) < MaxDrops
    /\ box' = BoxDrop(box, a)
    /\ inflight' = inflight \ {a}
    /\ drops' = [drops EXCEPT ![a] = Append(@, o)]
    /\ UNCHANGED <<nextBox, known, imported, last, crashed>>

\* row_set_fill_columns_metadata hands out a type handle for a column whose
\* type code is at least 0x20.
TypeInfoExport(ct) ==
    /\ ~crashed
    /\ nextBox <= MaxBoxes
    /\ column_type_to_code(ct) >= 32
    /\ LET b1 == BoxNew(box, nextBox, "ColumnType", ct)
           p == BoxIntoPtr(b1, nextBox)
       IN  /\ box' = b1
           /\ known' = known \cup {p}
           /\ last' = BoxCall("row_set_fill_columns_metadata", p, FALSE, 1,
                              "none", p)
    /\ nextBox' = nextBox + 1
    /\ UNCHANGED <<imported, inflight, crashed>>

\* row_set_type_info_free.
row_set_type_info_free(p) ==
    /\ ~crashed
    /\ IF IsNull(p)
       THEN UNCHANGED <<box, imported>>
       ELSE /\ box' = BoxFree(box, p)
            /\ imported' = imported \cup {BoxFromPtr(p)}
    /\ last' = BoxCall("row_set_type_info_free", p, IsNull(p), 0, "none",
                       NoHandle)
    /\ UNCHANGED <<nextBox, known, inflight, crashed>>

\* row_set_type_info_get_code.
row_set_type_info_get_code(p, g) ==
    /\ ~crashed
    /\ last' = BoxCall("row_set_type_info_get_code", p, IsNull(p),
                       IF IsNull(p) THEN 0
                       ELSE column_type_to_code(BoxRead(box, BoxAsRef(p), g)),
                       "none", NoHandle)
    /\ UNCHANGED <<box, nextBox, known, imported, inflight, crashed>>

\* row_set_type_info_get_tuple_field: index and output pointer are checked
\* before the field is boxed and written out.
row_set_type_info_get_tuple_field(p, g, index, outNull) ==
    /\ ~crashed
    /\ LET fields == IF IsNull(p) THEN <<>>
                     ELSE TupleFields(BoxRead(box, BoxAsRef(p), g))
           bad == IsNull(p) \/ outNull
                    \/ (fields # <<>> /\ index >= Len(fields))
       IN  IF IsNull(p) \/ fields = <<>> \/ index >= Len(fields) \/ outNull
           THEN /\ last' = BoxCall("row_set_type_info_get_tuple_field", p,
                                   bad, 0, "none", NoHandle)
                /\ child' = [kind |-> fields # <<>>,
                             inRange |-> index < Len(fields),
                             outNull |-> outNull, names |-> FALSE,
                             written |-> <<>>]
                /\ UNCHANGED <<box, nextBox, known>>
           ELSE /\ nextBox <= MaxBoxes
                /\ LET b1 == BoxNew(box, nextBox, "ColumnType", fields[index + 1])
                       q == BoxIntoPtr(b1, nextBox)
                   IN  /\ box' = b1
                       /\ known' = known \cup {q}
                       /\ last' = BoxCall("row_set_type_info_get_tuple_field",
                                          p, FALSE, 1, "none", q)
                       /\ child' = [kind |-> TRUE, inRange |-> TRUE,
                                    outNull |-> FALSE, names |-> FALSE,
                                    written |-> <<q>>]
                /\ nextBox' = nextBox + 1
    /\ UNCHANGED <<imported, inflight, crashed>>

\* row_set_type_info_get_udt_name: the four output pointers are written
\* through without a check.
row_set_type_info_get_udt_name(p, g, outNull) ==
    /\ ~crashed
    /\ LET isUdt == ~IsNull(p) /\ BoxRead(box, BoxAsRef(p), g) = "Udt"
       IN  /\ last' = BoxCall("row_set_type_info_get_udt_name", p,
                              IsNull(p) \/ outNull,
                              IF isUdt /\ ~outNull THEN 1 ELSE 0,
                              IF isUdt /\ outNull THEN "null_write" ELSE "none",
                              NoHandle)
           /\ crashed' = (isUdt /\ outNull)
    /\ UNCHANGED <<box, nextBox, known, imported, inflight>>


\* C11: an exclusive-heap address that has been imported (by free or by any
\* other operation taking the owned pointer) is never imported, freed or
\* dereferenced again by a later call, whatever calls the foreign side makes.
C11_ImportedAddressNeverUsedAgain == ~last.stale

\* C12: every exported function given a null Bridged Pointer answers with its
\* absent result (code 0, nothing written, no effect) and does not panic.
C12_NullPointerGivesAbsentResult ==
    (last.fn # "none" /\ IsNull(last.ptr)) =>
        (last.fault = "none" /\ last.ret = 0 /\ IsNull(last.out))

\* C13: a call with a wrong-shaped argument (a null handle, session or value
\* list, an index out of range, a null output pointer) returns 0, and no call
\* panics or writes through a null pointer.
C13_ShapeErrorsReturnZero ==
    /\ last.fault = "none"
    /\ last.bad => last.ret = 0

\* C32: a value list given to session_query_with_values stays allocated
\* while the work that owns it is unsettled, and once that work has settled,
\* with a row set, a domain error or a panic, it has been released, exactly
\* once.
C32_ValuesOwnedByTheWork ==
    /\ \A a \in inflight : box[a].st = "live"
    /\ \A a \in BoxAddrs :
          drops[a] # <<>> => (Len(drops[a]) = 1 /\ box[a].st = "released")

\* ------------------------- type information children (row_set.rs:234-453)

\* What a read through the pointer may find beyond the value itself: any
\* type once the allocation has been released, nothing else while it is live.
ReadChoices(p) ==
    IF ~IsNull(p) /\ box[ToRaw(p)].st # "live" THEN ColumnTypes ELSE {"Int"}

\* The number of exported type-info handles whose accessors are followed.
MaxHandles == 1

\* The pointers of one pointee type the foreign side still holds: those it
\* has received and not given back, and null.
Held(ty) == {p \in Passable(ty) : IsNull(p) \/ ToRaw(p) \notin imported}

\* No child accessor was the last call.
NoChild ==
    [kind |-> FALSE, inRange |-> FALSE, outNull |-> FALSE, names |-> FALSE,
     written |-> <<>>]

\* A child accessor's record: whether the type matched its arm, whether the
\* index was below the field count, whether an output handle pointer was
\* null, whether the name outputs were written, and the handles written.
ChildSeen(matched, inRange, outNull, names, written) ==
    [kind |-> matched, inRange |-> inRange, outNull |-> outNull,
     names |-> names, written |-> written]

\* Box::new of a child needs n free addresses.
ChildRoom(n) == nextBox + n - 1 <= MaxBoxes + 1

\* The accessor is given the same box for one child of the type elems, which
\* is empty when the type does not match the accessor's arm: null handle,
\* wrong type and null output return 0; otherwise the clone is boxed and its
\* pointer written out.
OneChild(fn, p, elems, outNull) ==
    /\ ~crashed
    /\ IF IsNull(p) \/ elems = <<>> \/ outNull
       THEN /\ last' = BoxCall(fn, p, IsNull(p) \/ outNull, 0, "none",
                               NoHandle)
            /\ child' = ChildSeen(elems # <<>>, TRUE, outNull, FALSE, <<>>)
            /\ box' = BoxAsRefEnds(box, p)
            /\ UNCHANGED <<nextBox, known>>
       ELSE /\ ChildRoom(1)
            /\ LET b1 == BoxNew(BoxAsRefEnds(box, p), nextBox, "ColumnType",
                                elems[1])
                   q == BoxIntoPtr(b1, nextBox)
               IN  /\ box' = b1
                   /\ known' = known \cup {q}
                   /\ last' = BoxCall(fn, p, FALSE, 1, "none", q)
                   /\ child' = ChildSeen(TRUE, TRUE, FALSE, FALSE, <<q>>)
            /\ nextBox' = nextBox + 1
    /\ UNCHANGED <<imported, inflight, crashed>>

\* row_set_type_info_get_list_child: only Collection List matches.
row_set_type_info_get_list_child(p, g, outNull) ==
    OneChild("row_set_type_info_get_list_child", p,
             IF IsNull(p) THEN <<>>
             ELSE ListElement(BoxRead(box, BoxAsRef(p), g)), outNull)

\* row_set_type_info_get_set_child: only Collection Set matches.
row_set_type_info_get_set_child(p, g, outNull) ==
    OneChild("row_set_type_info_get_set_child", p,
             IF IsNull(p) THEN <<>>
             ELSE SetElement(BoxRead(box, BoxAsRef(p), g)), outNull)

\* row_set_type_info_get_map_children: both output pointers are checked,
\* then the key and the value type are boxed and written out.
row_set_type_info_get_map_children(p, g, outKeyNull, outValueNull) ==
    /\ ~crashed
    /\ LET kv == IF IsNull(p) THEN <<>>
                 ELSE MapChildren(BoxRead(box, BoxAsRef(p), g))
           outNull == outKeyNull \/ outValueNull
       IN  IF IsNull(p) \/ kv = <<>> \/ outNull
           THEN /\ last' = BoxCall("row_set_type_info_get_map_children", p,
                                   IsNull(p) \/ outNull, 0, "none", NoHandle)
                /\ child' = ChildSeen(kv # <<>>, TRUE, outNull, FALSE, <<>>)
                /\ box' = BoxAsRefEnds(box, p)
                /\ UNCHANGED <<nextBox, known>>
           ELSE /\ ChildRoom(2)
                /\ LET b1 == BoxNew(BoxAsRefEnds(box, p), nextBox,
                                    "ColumnType", kv[1])
                       b2 == BoxNew(b1, nextBox + 1, "ColumnType", kv[2])
                       qk == BoxIntoPtr(b2, nextBox)
                       qv == BoxIntoPtr(b2, nextBox + 1)
                   IN  /\ box' = b2
                       /\ known' = known \cup {qk, qv}
                       /\ last' = BoxCall("row_set_type_info_get_map_children",
                                          p, FALSE, 1, "none", qk)
                       /\ child' = ChildSeen(TRUE, TRUE, FALSE, FALSE,
                                             <<qk, qv>>)
                /\ nextBox' = nextBox + 2
    /\ UNCHANGED <<imported, inflight, crashed>>

\* row_set_type_info_get_udt_field: the index and the output handle pointer
\* are checked; the two name outputs are written through without a check,
\* before the field type is boxed and its pointer written out.
row_set_type_info_get_udt_field(p, g, index, outNull, outNameNull) ==
    /\ ~crashed
    /\ LET fields == IF IsNull(p) THEN <<>>
                     ELSE UdtFields(BoxRead(box, BoxAsRef(p), g))
           inRange == index < Len(fields)
           bad == IsNull(p) \/ outNull \/ outNameNull
                    \/ (fields # <<>> /\ ~inRange)
       IN  IF IsNull(p) \/ fields = <<>> \/ ~inRange \/ outNull
           THEN /\ last' = BoxCall("row_set_type_info_get_udt_field", p, bad,
                                   0, "none", NoHandle)
                /\ child' = ChildSeen(fields # <<>>, inRange, outNull, FALSE,
                                      <<>>)
                /\ box' = BoxAsRefEnds(box, p)
                /\ UNCHANGED <<nextBox, known, crashed>>
           ELSE IF outNameNull
           THEN /\ last' = BoxCall("row_set_type_info_get_udt_field", p, bad,
                                   0, "null_write", NoHandle)
                /\ child' = ChildSeen(TRUE, TRUE, FALSE, FALSE, <<>>)
                /\ crashed' = TRUE
                /\ UNCHANGED <<box, nextBox, known>>
           ELSE /\ ChildRoom(1)
                /\ LET b1 == BoxNew(BoxAsRefEnds(box, p), nextBox,
                                    "ColumnType", fields[index + 1])
                       q == BoxIntoPtr(b1, nextBox)
                   IN  /\ box' = b1
                       /\ known' = known \cup {q}
                       /\ last' = BoxCall("row_set_type_info_get_udt_field",
                                          p, FALSE, 1, "none", q)
                       /\ child' = ChildSeen(TRUE, TRUE, FALSE, TRUE, <<q>>)
                /\ nextBox' = nextBox + 1
                /\ UNCHANGED crashed
    /\ UNCHANGED <<imported, inflight>>

\* The count accessors: null handle and wrong type return 0, else the
\* number of fields.
FieldCount(fn, p, fields) ==
    /\ ~crashed
    /\ last' = BoxCall(fn, p, IsNull(p), Len(fields), "none", NoHandle)
    /\ child' = NoChild
    /\ box' = BoxAsRefEnds(box, p)
    /\ UNCHANGED <<nextBox, known, imported, inflight, crashed>>

\* row_set_type_info_get_tuple_field_count.
row_set_type_info_get_tuple_field_count(p, g) ==
    FieldCount("row_set_type_info_get_tuple_field_count", p,
               IF IsNull(p) THEN <<>>
               ELSE TupleFields(BoxRead(box, BoxAsRef(p), g)))

\* row_set_type_info_get_udt_field_count.
row_set_type_info_get_udt_field_count(p, g) ==
    FieldCount("row_set_type_info_get_udt_field_count", p,
               IF IsNull(p) THEN <<>>
               ELSE UdtFields(BoxRead(box, BoxAsRef(p), g)))

\* The five child accessors, the number of output handles each has, and the
\* type code column_type_to_code gives the type each one matches.
ChildAccessors ==
    {"row_set_type_info_get_list_child", "row_set_type_info_get_set_child",
     "row_set_type_info_get_map_children",
     "row_set_type_info_get_tuple_field", "row_set_type_info_get_udt_field"}

HandleOutputs(fn) ==
    IF fn = "row_set_type_info_get_map_children" THEN 2 ELSE 1

AccessorCode(fn) ==
    CASE fn = "row_set_type_info_get_list_child" -> 32
      [] fn = "row_set_type_info_get_map_children" -> 33
      [] fn = "row_set_type_info_get_set_child" -> 34
      [] fn = "row_set_type_info_get_udt_field" -> 48
      [] fn = "row_set_type_info_get_tuple_field" -> 49
      [] OTHER -> 0

\* C35: a child accessor returns 1 exactly when the handle is non-null, the
\* type is of the accessor's kind, the index (where there is one) is below
\* the field count and the output handle pointers are non-null; when it
\* returns 1 every output handle holds the pointer of a new live Box of its
\* own, and when it returns 0 no output parameter has been written.
C35_ChildAccessorCodeAndOutputs ==
    last.fn \in ChildAccessors =>
        /\ last.fault = "none"
        /\ (last.ret = 1) <=>
              (~IsNull(last.ptr) /\ child.kind /\ child.inRange
                 /\ ~child.outNull)
        /\ last.ret = 1 =>
              /\ Len(child.written) = HandleOutputs(last.fn)
              /\ \A i \in 1..Len(child.written) :
                    /\ ~IsNull(child.written[i])
                    /\ child.written[i] # last.ptr
                    /\ box[ToRaw(child.written[i])].st = "live"
                    /\ \A j \in 1..Len(child.written) :
                          j # i => child.written[j] # child.written[i]
        /\ last.ret = 0 => (child.written = <<>> /\ ~child.names)

\* C36: no read accessor releases a type-info object, only
\* row_set_type_info_free does, and only the object of the handle it is
\* given; every child handle an accessor writes is the pointer of an
\* allocation that did not exist before the call, so it stays live when its
\* parent is freed and is released only by a free of its own.
C36_OnlyFreeReleasesChildrenAreSeparate ==
    [][/\ \A a \in BoxAddrs :
             (box[a].st = "live" /\ box'[a].st # "live") =>
                 /\ last'.fn = "row_set_type_info_free"
                 /\ last'.ptr = FromRaw(a, "ColumnType")
       /\ child'.written # child.written =>
             \A i \in 1..Len(child'.written) :
                 /\ box[ToRaw(child'.written[i])].st = "unalloc"
                 /\ box'[ToRaw(child'.written[i])].st = "live"]_<<boxVars, tiVars>>

\* A list handle has been freed while the element handle read from it is
\* still live.
C36_Witness ==
    /\ last.fn = "row_set_type_info_free"
    /\ last.ptr = FromRaw(1, "ColumnType")
    /\ box[1].st = "released" /\ box[1].val = "List"
    /\ nextBox = 3
    /\ box[2].st = "live" /\ box[2].val = "Int"

\* C37: a child accessor called on a handle whose type code is the code of
\* the accessor's kind (0x0020 list, 0x0021 map, 0x0022 set, 0x0030 UDT,
\* 0x0031 tuple), with non-null output handles and an in-range index,
\* returns 1 whenever it returns.
C37_TypeCodeImpliesChildAccess ==
    (/\ last.fn \in ChildAccessors
     /\ last.fault = "none"
     /\ ~IsNull(last.ptr)
     /\ child.inRange /\ ~child.outNull
     /\ column_type_to_code(box[ToRaw(last.ptr)].val) = AccessorCode(last.fn))
        => last.ret = 1

\* ------------------------------------------------ reborrows (ffi.rs:188-213)
\* Native code holding an owner (an owned pointer from BoxFFI::into_ptr or
\* ArcFFI::into_ptr, or an Arc) and the borrowed pointers derived from it with
\* borrow(), borrow_mut() and as_ptr().  A step exists when the compiler
\* accepts the call: the receiver types of ffi.rs decide that.

\* The number of borrowed pointers followed.
MaxReborrows == 3

Reborrows == 1..MaxReborrows

\* The owners followed: an owned exclusive pointer, an owned shared pointer
\* and an Arc.
Owners == {"box_ptr", "arc_ptr", "arc"}

NoReborrow == [st |-> "unused", kind |-> "none", of |-> "none"]

VARIABLES
    ownerSt,    \* per owner: held, or moved (freed, imported or dropped)
    reborrow,   \* per borrowed pointer: its state, kind and owner
    lastUse,    \* the last use of a borrowed pointer, with its owner's state
    moved       \* the lifetimes of the pointers passed to free / from_ptr

borrowVars == <<ownerSt, reborrow, lastUse, moved>>

\* The live borrowed pointers derived from owner o.
LiveOf(o) == {i \in Reborrows : reborrow[i].st = "live" /\ reborrow[i].of = o}

\* borrow(&'a self): a shared borrow of the original pointer for 'a is
\* accepted while no exclusive borrow of it is live.
BorrowAdmits(o) ==
    /\ ownerSt[o] = "held"
    /\ \A i \in LiveOf(o) : reborrow[i].kind = "shared"

\* A borrow_mut whose receiver were &'a self.
BorrowMutAdmitsSharedSelf(o) == BorrowAdmits(o)

\* borrow_mut(&'a mut self): an exclusive borrow of the original pointer for
\* 'a is accepted while no borrow of it is live.
BorrowMutAdmits(o) ==
    /\ ownerSt[o] = "held"
    /\ LiveOf(o) = {}

\* A free taking its pointer by reference.
MoveAdmitsByReference(o) == ownerSt[o] = "held"

\* free(ptr) / from_ptr(ptr) / drop(arc): the owner is moved into the call,
\* which is accepted while no borrow of it is live.
MoveAdmits(o) ==
    /\ ownerSt[o] = "held"
    /\ LiveOf(o) = {}

\* The pointers native code can hand to a call: an owner, with lifetime
\* 'static, or a live borrowed pointer, with the lifetime 'a of its borrow.
OwnerPtr(o) == [lifetime |-> "static", owner |-> o, slot |-> 0]

BorrowedPtr(i) == [lifetime |-> "a", owner |-> reborrow[i].of, slot |-> i]

Pointers ==
    {OwnerPtr(o) : o \in Owners}
    \cup {BorrowedPtr(i) : i \in {j \in Reborrows : reborrow[j].st = "live"}}

\* free and from_ptr take BridgedPtr<'static, ..>.
StaticAdmits(p) == p.lifetime = "static"

\* borrow() on an owned pointer.
borrow(o, i) ==
    /\ o \in {"box_ptr", "arc_ptr"}
    /\ reborrow[i].st = "unused"
    /\ BorrowAdmits(o)
    /\ reborrow' = [reborrow EXCEPT ![i] =
                       [st |-> "live", kind |-> "shared", of |-> o]]
    /\ UNCHANGED <<ownerSt, lastUse, moved>>

\* borrow_mut() on an owned exclusive pointer.
borrow_mut(o, i) ==
    /\ o = "box_ptr"
    /\ reborrow[i].st = "unused"
    /\ BorrowMutAdmits(o)
    /\ reborrow' = [reborrow EXCEPT ![i] =
                       [st |-> "live", kind |-> "mut", of |-> o]]
    /\ UNCHANGED <<ownerSt, lastUse, moved>>

\* ArcFFI::as_ptr(&'a Arc): a peek that borrows the Arc.
as_ptr(o, i) ==
    /\ o = "arc"
    /\ reborrow[i].st = "unused"
    /\ BorrowAdmits(o)
    /\ reborrow' = [reborrow EXCEPT ![i] =
                       [st |-> "live", kind |-> "shared", of |-> o]]
    /\ UNCHANGED <<ownerSt, lastUse, moved>>

\* A use of a borrowed pointer: as_ref, as_mut_ref or cloned_from_ptr.
UseBorrowed(i) ==
    /\ reborrow[i].st = "live"
    /\ lastUse' = [ptr |-> i, owner |-> ownerSt[reborrow[i].of]]
    /\ UNCHANGED <<ownerSt, reborrow, moved>>

\* The lifetime 'a of a borrowed pointer ends after its last use.
EndLifetime(i) ==
    /\ reborrow[i].st = "live"
    /\ reborrow' = [reborrow EXCEPT ![i].st = "ended"]
    /\ UNCHANGED <<ownerSt, lastUse, moved>>

\* BoxFFI::free / ArcFFI::free / from_ptr of an owned pointer, or the drop of
\* the Arc: p is the pointer handed in.
MoveOwner(p) ==
    /\ StaticAdmits(p)
    /\ MoveAdmits(p.owner)
    /\ ownerSt' = [ownerSt EXCEPT ![p.owner] = "moved"]
    /\ moved' = moved \cup {p.lifetime}
    /\ UNCHANGED <<reborrow, lastUse>>

\* C14: over every sequence of borrow() and borrow_mut() calls on one
\* pointer, two live reborrows of it coexist only if both are shared: a
\* mutable reborrow is alone, whatever the order of the calls.
C14_AliasingXorMutability ==
    \A o \in Owners : \A i, j \in LiveOf(o) :
        i # j => (reborrow[i].kind = "shared" /\ reborrow[j].kind = "shared")

\* Two shared reborrows of the exclusive pointer live together after a
\* mutable reborrow of it has ended.
C14_Witness ==
    \E i, j, k \in Reborrows :
        /\ i # j
        /\ {i, j} \subseteq LiveOf("box_ptr")
        /\ reborrow[k] = [st |-> "ended", kind |-> "mut", of |-> "box_ptr"]

\* C15: a borrowed pointer (reborrowed or peeked) is live, and is used, only
\* while its owner is held; free, import and drop take owners only, never a
\* borrowed pointer.
C15_NoBorrowedPointerOutlivesOwner ==
    /\ \A i \in Reborrows :
          reborrow[i].st = "live" => ownerSt[reborrow[i].of] = "held"
    /\ lastUse.owner = "held"
    /\ moved \subseteq {"static"}

\* An owner was freed after a pointer borrowed from it was used and ended.
C15_Witness ==
    \E i \in Reborrows :
        /\ reborrow[i].st = "ended"
        /\ ownerSt[reborrow[i].of] = "moved"
        /\ lastUse.ptr = i

\* ------------------------------------------- the runtime (task.rs:12-13)
\* static RUNTIME: LazyLock<Runtime>.  Foreign threads call exported
\* functions that end in BridgedFuture::spawn or BridgedFuture::block_on;
\* each of them dereferences RUNTIME first.

\* The number of foreign threads followed.
MaxThreads == 2

Threads == 1..MaxThreads

VARIABLES
    once,       \* the LazyLock: incomplete, running, complete or poisoned
    created,    \* how many times Runtime::new() has returned a runtime
    initBy,     \* the thread that ran the initializer, 0 for none
    tpc,        \* per thread: idle, deref, init or exec
    tkind,      \* per thread: the bridge function it is in
    trt,        \* per thread: the runtime its dereference gave it
    ranOn,      \* the pairs <<function, runtime>> of the executed calls
    rtAbort     \* the initializer panicked: the process aborted

rtVars == <<once, created, initBy, tpc, tkind, trt, ranOn, rtAbort>>

\* A lazy cell whose check and initialization are not one step.
OnceAdmitsInitUnsynchronized(o) == o \in {"incomplete", "running"}

\* LazyLock runs its closure for the caller that finds it incomplete.
OnceAdmitsInit(o) == o = "incomplete"

\* A foreign thread enters spawn or block_on.
BridgeCall(th, k) ==
    /\ ~rtAbort
    /\ tpc[th] = "idle"
    /\ tpc' = [tpc EXCEPT ![th] = "deref"]
    /\ tkind' = [tkind EXCEPT ![th] = k]
    /\ UNCHANGED <<once, created, initBy, trt, ranOn>>
    /\ UNCHANGED rtAbort

\* The dereference of RUNTIME finds the cell incomplete and starts the
\* initializer on this thread.
ForceStartsInit(th) ==
    /\ ~rtAbort
    /\ tpc[th] = "deref"
    /\ OnceAdmitsInit(once)
    /\ once' = "running"
    /\ tpc' = [tpc EXCEPT ![th] = "init"]
    /\ UNCHANGED <<created, initBy, tkind, trt, ranOn, rtAbort>>

\* || Runtime::new().unwrap(): a runtime is created and stored, or
\* Runtime::new() fails and unwrap panics out of the extern "C" function.
RunInit(th, ok) ==
    /\ ~rtAbort
    /\ tpc[th] = "init"
    /\ IF ok
       THEN /\ created' = created + 1
            /\ once' = "complete"
            /\ initBy' = th
            /\ trt' = [trt EXCEPT ![th] = created + 1]
            /\ tpc' = [tpc EXCEPT ![th] = "exec"]
            /\ UNCHANGED rtAbort
       ELSE /\ once' = "poisoned"
            /\ rtAbort' = TRUE
            /\ UNCHANGED <<created, initBy, trt, tpc>>
    /\ UNCHANGED <<tkind, ranOn>>

\* The dereference of RUNTIME finds the cell complete and yields the stored
\* runtime.  A caller that finds it running waits.
ForceReads(th) ==
    /\ ~rtAbort
    /\ tpc[th] = "deref"
    /\ once = "complete"
    /\ trt' = [trt EXCEPT ![th] = created]
    /\ tpc' = [tpc EXCEPT ![th] = "exec"]
    /\ UNCHANGED <<once, created, initBy, tkind, ranOn, rtAbort>>

\* RUNTIME.spawn(..) / RUNTIME.block_on(..) on the runtime obtained.
RunOnRuntime(th) ==
    /\ ~rtAbort
    /\ tpc[th] = "exec"
    /\ ranOn' = ranOn \cup {<<tkind[th], trt[th]>>}
    /\ tpc' = [tpc EXCEPT ![th] = "idle"]
    /\ UNCHANGED <<once, created, initBy, tkind, trt, rtAbort>>

\* C16: the runtime is created at most once, by the first use and not
\* before, also when several threads make their first use together; every
\* spawn and every block_on ran on that one runtime; once created it stays.
C16_OneRuntimeInitializedOnce ==
    /\ created <= 1
    /\ (created = 1) = (once = "complete")
    /\ (created = 1) = (initBy # 0)
    /\ \A r \in ranOn : r[2] = 1 /\ created = 1
    /\ \A th \in Threads : tpc[th] = "exec" => trt[th] = 1

\* Two threads made their first use together, one ran the initializer, and
\* a spawn and a block_on have run on the runtime.
C16_Witness ==
    /\ ranOn = {<<"spawn", 1>>, <<"block_on", 1>>}
    /\ \E th \in Threads : th # initBy /\ tpc[th] = "exec"

\* ------------------------------------------ RefFFI::weak_as_ptr (ffi.rs:428)
\* One object in an Arc, the native owners that hold it, and threads that
\* call weak_as_ptr with a Weak handle to it.

\* The native owners of the object.
WeakOwners == {"owner_a", "owner_b"}

\* The pointer Arc::as_ptr gives for the object.
ObjPtr == FromRaw(1, "RefObject")

VARIABLES
    wstrong,    \* the strong count of the object
    wdropped,   \* the object has been released (the count reached zero)
    wheld,      \* the native owners still holding their strong handle
    wpc,        \* per thread: idle, called, some, none or returned
    wexpired,   \* per thread: the Weak was expired when the call began
    wret,       \* per thread: the pointer returned
    wlive       \* per thread: the object was unreleased when the call returned

weakVars == <<wstrong, wdropped, wheld, wpc, wexpired, wret, wlive>>

\* An upgrade that increments without looking at the count.
WeakUpgradeUnchecked(s) == [ok |-> TRUE, strong |-> s + 1]

\* Weak::upgrade: fails at count zero, else increments the count.
WeakUpgrade(s) ==
    IF s = 0 THEN [ok |-> FALSE, strong |-> s]
    ELSE [ok |-> TRUE, strong |-> s + 1]

\* A native owner drops its strong handle; the last one releases the
\* object.
OwnerDrops(o) ==
    /\ o \in wheld
    /\ wheld' = wheld \ {o}
    /\ wstrong' = wstrong - 1
    /\ wdropped' = (wdropped \/ wstrong = 1)
    /\ UNCHANGED <<wpc, wexpired, wret, wlive>>

\* weak_as_ptr is entered.
WeakAsPtrEnter(th) ==
    /\ wpc[th] \in {"idle", "returned"}
    /\ wpc' = [wpc EXCEPT ![th] = "called"]
    /\ wexpired' = [wexpired EXCEPT ![th] = (wstrong = 0)]
    /\ UNCHANGED <<wstrong, wdropped, wheld, wret, wlive>>

\* match w.upgrade().
WeakAsPtrUpgrade(th) ==
    /\ wpc[th] = "called"
    /\ LET u == WeakUpgrade(wstrong)
       IN  /\ wstrong' = u.strong
           /\ wpc' = [wpc EXCEPT ![th] = IF u.ok THEN "some" ELSE "none"]
    /\ UNCHANGED <<wdropped, wheld, wexpired, wret, wlive>>

\* Some(a): the pointer is taken with Arc::as_ptr, the temporary handle a is
\* dropped at the end of the arm, and the pointer is returned.
WeakAsPtrSome(th) ==
    /\ wpc[th] = "some"
    /\ wstrong' = wstrong - 1
    /\ wdropped' = (wdropped \/ wstrong = 1)
    /\ wret' = [wret EXCEPT ![th] = ObjPtr]
    /\ wlive' = [wlive EXCEPT ![th] = ~wdropped']
    /\ wpc' = [wpc EXCEPT ![th] = "returned"]
    /\ UNCHANGED <<wheld, wexpired>>

\* None: the null pointer is returned.
WeakAsPtrNone(th) ==
    /\ wpc[th] = "none"
    /\ wret' = [wret EXCEPT ![th] = NullPtr("RefObject")]
    /\ wlive' = [wlive EXCEPT ![th] = ~wdropped]
    /\ wpc' = [wpc EXCEPT ![th] = "returned"]
    /\ UNCHANGED <<wstrong, wdropped, wheld, wexpired>>

\* C17: a call of weak_as_ptr that begins when the Weak has expired (no
\* strong owner is left) returns the null pointer, never the address of the
\* released object.
C17_ExpiredWeakGivesNull ==
    \A th \in Threads :
        (wpc[th] = "returned" /\ wexpired[th]) => IsNull(wret[th])

\* One call returned the object's address while it was owned, and a later
\* call, begun after the last owner dropped, returned null.
C17_Witness ==
    \E th, u \in Threads :
        /\ wpc[th] = "returned" /\ wexpired[th] /\ IsNull(wret[th])
        /\ wpc[u] = "returned" /\ ~wexpired[u] /\ wret[u] = ObjPtr
        /\ wdropped

\* C30: a call of weak_as_ptr that returned a non-null pointer returned it
\* while the object was not yet released, also when other threads dropped
\* the remaining strong handles during the call.
C30_NonNullReturnRefersToUnreleasedObject ==
    \A th \in Threads :
        (wpc[th] = "returned" /\ ~IsNull(wret[th])) => wlive[th]

\* ------------------------------------------------------ row sets (row_set.rs)
\* Foreign threads call row_set_get_columns_count, row_set_next_row and
\* row_set_free on row sets they own.  A row set is an Arc<RowSet> whose pager sits in a Mutex.

\* The number of rows a pager is followed through.
MaxRows == 1

\* The row sets followed, by address.
RowSets == {1, 2}

\* The columns of every row: a value and a null.
RowColumns == <<"value", "null">>

\* The exported functions that lock the pager.
PagerFns == {"row_set_get_columns_count", "row_set_next_row"}

VARIABLES
    rsStrong,   \* per row set: the strong count of its Arc
    rsFreed,    \* per row set: the foreign side has called row_set_free
    rsReleased, \* per row set: the RowSet, with its pager, has been dropped
    mutex,      \* per row set: the thread holding the pager's lock, 0 if none
    rows,       \* per row set: the rows its pager has left
    pageVer,    \* per row set: how often the pager's row buffer has changed
    rpc,        \* per thread: where it is in its call
    rfn,        \* per thread: the function it called
    rtarget,    \* per thread: the row set it was given
    rcol,       \* per thread: the column its work is at
    rdone,      \* per thread: the work given to block_on has settled
    rval,       \* per thread: the value the work settled with
    rret,       \* per thread: the value its call returned
    cbVer,      \* per thread: pageVer when its callback began
    rgot,       \* per thread: what next_column_iterator gave its work
    rcalls,     \* per thread: the value_index of each deserialize_value call
    rnest       \* per thread: the pager function its callback has called

rsVars == <<rsStrong, rsFreed, rsReleased, mutex, rows, pageVer, rpc, rfn,
            rtarget, rcol, rdone, rval, rret, cbVer, rgot, rcalls, rnest>>

\* A thread is between calls.
Between(th) == rpc[th] \in {"idle", "returned"}

\* A thread is accessing the pager of row set r: it holds the lock, or it is
\* dropping the RowSet.
InPager(th, r) ==
    /\ rtarget[th] = r
    /\ rpc[th] \in {"locked", "columns", "callback", "settled", "dropping"}

\* pager.lock(): granted when no thread holds this row set's lock.  On a
\* released RowSet the lock word is freed memory and reads as anything.
LockAdmits(th) == mutex[rtarget[th]] = 0 \/ rsReleased[rtarget[th]]

\* A block_on that does not wait for the work and returns a default.
BlockOnDetached(done, v) == FALSE

\* BridgedFuture::block_on: RUNTIME.block_on(future), the work's output.
BlockOn(done, v) == v

\* bool as i32.
BoolAsI32(b) == IF b THEN 1 ELSE 0

\* A pager function is entered: ArcFFI::as_ref(row_set_ptr).unwrap().  The
\* foreign side starts no call with a pointer it has passed to row_set_free.
RsEnter(th, f, r) ==
    /\ Between(th)
    /\ ~rsFreed[r]
    /\ rpc' = [rpc EXCEPT ![th] = "entered"]
    /\ rfn' = [rfn EXCEPT ![th] = f]
    /\ rtarget' = [rtarget EXCEPT ![th] = r]
    /\ rdone' = [rdone EXCEPT ![th] = FALSE]
    /\ rval' = [rval EXCEPT ![th] = FALSE]
    /\ rret' = [rret EXCEPT ![th] = 0]
    /\ rgot' = [rgot EXCEPT ![th] = "none"]
    /\ rcalls' = [rcalls EXCEPT ![th] = <<>>]
    /\ UNCHANGED <<rsStrong, rsFreed, rsReleased, mutex, rows, pageVer, rcol,
                   cbVer,
                   rnest>>

\* row_set.pager.lock().unwrap().
RsLock(th) ==
    /\ rpc[th] = "entered"
    /\ LockAdmits(th)
    /\ mutex' = [mutex EXCEPT ![rtarget[th]] = th]
    /\ rpc' = [rpc EXCEPT ![th] = "locked"]
    /\ UNCHANGED <<rsStrong, rsFreed, rsReleased, rows, pageVer, rfn, rtarget,
                   rcol, rdone, rval, rret, cbVer,
                   rgot, rcalls, rnest>>

\* The guard is dropped when the function returns.
Unlock(m, th, r) == IF m[r] = th THEN [m EXCEPT ![r] = 0] ELSE m

\* row_set_get_columns_count: the column specs are counted under the lock
\* and the function returns, dropping the guard.
RsReadColumns(th) ==
    /\ rpc[th] = "locked"
    /\ rfn[th] = "row_set_get_columns_count"
    /\ rret' = [rret EXCEPT ![th] = Len(RowColumns)]
    /\ mutex' = Unlock(mutex, th, rtarget[th])
    /\ rpc' = [rpc EXCEPT ![th] = "returned"]
    /\ UNCHANGED <<rsStrong, rsFreed, rsReleased, rows, pageVer, rfn, rtarget,
                   rcol, rdone, rval, cbVer,
                   rgot, rcalls, rnest>>

\* The work of row_set_next_row starts under block_on:
\* pager.next_column_iterator().await gives Some(Ok(row)), or None when the
\* pager is exhausted, or, when fetching failed (fails), Some(Err(..)); only
\* Some(Ok(..)) takes the first branch of the if let.
WorkFetch(th, fails) ==
    /\ rpc[th] = "locked"
    /\ rfn[th] = "row_set_next_row"
    /\ LET r == rtarget[th]
       IN  IF rows[r] > 0 /\ ~fails
           THEN /\ rows' = [rows EXCEPT ![r] = @ - 1]
                /\ pageVer' = [pageVer EXCEPT ![r] = @ + 1]
                /\ rcol' = [rcol EXCEPT ![th] = 1]
                /\ rpc' = [rpc EXCEPT ![th] = "columns"]
                /\ rgot' = [rgot EXCEPT ![th] = "row"]
                /\ UNCHANGED <<rdone, rval>>
           ELSE /\ rdone' = [rdone EXCEPT ![th] = TRUE]
                /\ rval' = [rval EXCEPT ![th] = FALSE]
                /\ rpc' = [rpc EXCEPT ![th] = "settled"]
                /\ rgot' = [rgot EXCEPT ![th] =
                                IF rows[r] > 0 THEN "error" ELSE "end"]
                /\ UNCHANGED <<rows, pageVer, rcol>>
    /\ UNCHANGED <<rsStrong, rsFreed, rsReleased, mutex, rfn, rtarget, rret,
                   cbVer,
                   rcalls, rnest>>

\* A column with a value: deserialize_value is called with the pointer to
\* its bytes in the row buffer.
WorkCallbackBegins(th) ==
    /\ rpc[th] = "columns"
    /\ rcol[th] <= Len(RowColumns)
    /\ RowColumns[rcol[th]] = "value"
    /\ cbVer' = [cbVer EXCEPT ![th] = pageVer[rtarget[th]]]
    /\ rcalls' = [rcalls EXCEPT ![th] = Append(@, rcol[th] - 1)]
    /\ rpc' = [rpc EXCEPT ![th] = "callback"]
    /\ UNCHANGED <<rsStrong, rsFreed, rsReleased, mutex, rows, pageVer, rfn,
                   rtarget, rcol, rdone, rval, rret,
                   rgot, rnest>>

\* deserialize_value returns.
WorkCallbackEnds(th) ==
    /\ rpc[th] = "callback"
    /\ rnest[th] = "none"
    /\ rcol' = [rcol EXCEPT ![th] = @ + 1]
    /\ cbVer' = [cbVer EXCEPT ![th] = 0]
    /\ rpc' = [rpc EXCEPT ![th] = "columns"]
    /\ UNCHANGED <<rsStrong, rsFreed, rsReleased, mutex, rows, pageVer, rfn,
                   rtarget, rdone, rval, rret,
                   rgot, rcalls, rnest>>

\* The callback itself calls a pager function on the row set it is called
\* for: the nested call passes as_ref and reaches pager.lock().
CallbackCallsBack(th, f) ==
    /\ rpc[th] = "callback"
    /\ rnest[th] = "none"
    /\ rnest' = [rnest EXCEPT ![th] = f]
    /\ UNCHANGED <<rsStrong, rsFreed, rsReleased, mutex, rows, pageVer, rpc,
                   rfn, rtarget, rcol, rdone, rval, rret, cbVer, rgot,
                   rcalls>>

\* pager.lock() of the nested call.  The Mutex is not reentrant and its
\* guard is held by the outer call on this thread, so lock() does not
\* return (it blocks or panics).  On a released RowSet the lock word reads
\* as anything (free): the nested call may then run and return.
NestedLock(th, free) ==
    /\ rnest[th] \notin {"none", "stuck"}
    /\ rnest' = [rnest EXCEPT ![th] =
                    IF rsReleased[rtarget[th]] /\ free THEN "none"
                    ELSE "stuck"]
    /\ UNCHANGED <<rsStrong, rsFreed, rsReleased, mutex, rows, pageVer, rpc,
                   rfn, rtarget, rcol, rdone, rval, rret, cbVer, rgot,
                   rcalls>>

\* A null column is skipped.
WorkSkipsNull(th) ==
    /\ rpc[th] = "columns"
    /\ rcol[th] <= Len(RowColumns)
    /\ RowColumns[rcol[th]] = "null"
    /\ rcol' = [rcol EXCEPT ![th] = @ + 1]
    /\ UNCHANGED <<rsStrong, rsFreed, rsReleased, mutex, rows, pageVer, rpc,
                   rfn, rtarget, rdone, rval, rret, cbVer,
                   rgot, rcalls, rnest>>

\* After the last column the work settles with true.
WorkRowDone(th) ==
    /\ rpc[th] = "columns"
    /\ rcol[th] > Len(RowColumns)
    /\ rdone' = [rdone EXCEPT ![th] = TRUE]
    /\ rval' = [rval EXCEPT ![th] = TRUE]
    /\ rcol' = [rcol EXCEPT ![th] = 0]
    /\ rpc' = [rpc EXCEPT ![th] = "settled"]
    /\ UNCHANGED <<rsStrong, rsFreed, rsReleased, mutex, rows, pageVer, rfn,
                   rtarget, rret, cbVer,
                   rgot, rcalls, rnest>>

\* block_on returns the work's output, row_set_next_row returns it as i32
\* and the guard is dropped.
NextRowReturns(th) ==
    /\ rpc[th] = "settled"
    /\ rret' = [rret EXCEPT ![th] = BoolAsI32(BlockOn(rdone[th], rval[th]))]
    /\ mutex' = Unlock(mutex, th, rtarget[th])
    /\ rpc' = [rpc EXCEPT ![th] = "returned"]
    /\ UNCHANGED <<rsStrong, rsFreed, rsReleased, rows, pageVer, rfn, rtarget,
                   rcol, rdone, rval, cbVer,
                   rgot, rcalls, rnest>>

\* row_set_free: ArcFFI::free takes the foreign side's strong handle; the
\* count drops to zero and this thread goes on to drop the RowSet.
RowSetFreeCall(th, r) ==
    /\ Between(th)
    /\ ~rsFreed[r]
    /\ rsFreed' = [rsFreed EXCEPT ![r] = TRUE]
    /\ rsStrong' = [rsStrong EXCEPT ![r] = @ - 1]
    /\ rfn' = [rfn EXCEPT ![th] = "row_set_free"]
    /\ rtarget' = [rtarget EXCEPT ![th] = r]
    /\ rpc' = [rpc EXCEPT ![th] =
                   IF rsStrong[r] = 1 THEN "dropping" ELSE "returned"]
    /\ rdone' = [rdone EXCEPT ![th] = FALSE]
    /\ rval' = [rval EXCEPT ![th] = FALSE]
    /\ rret' = [rret EXCEPT ![th] = 0]
    /\ rgot' = [rgot EXCEPT ![th] = "none"]
    /\ rcalls' = [rcalls EXCEPT ![th] = <<>>]
    /\ UNCHANGED <<rsReleased, mutex, rows, pageVer, rcol, cbVer,
                   rnest>>

\* The RowSet is dropped: the Mutex, the pager and its row buffer are
\* released.
RowSetDropped(th) ==
    /\ rpc[th] = "dropping"
    /\ rsReleased' = [rsReleased EXCEPT ![rtarget[th]] = TRUE]
    /\ rpc' = [rpc EXCEPT ![th] = "returned"]
    /\ UNCHANGED <<rsStrong, rsFreed, mutex, rows, pageVer, rfn, rtarget, rcol,
                   rdone, rval, rret, cbVer,
                   rgot, rcalls, rnest>>

\* C18: a call of row_set_next_row returns only after the work given to
\* block_on has settled, with that work's value, and no callback of any Task
\* Control Block is invoked.
C18_BlockOnReturnsTheWorkValue ==
    /\ \A th \in Threads :
          (rpc[th] = "returned" /\ rfn[th] = "row_set_next_row") =>
              (rdone[th] /\ rret[th] = BoolAsI32(rval[th]))
    /\ \A t \in Tasks : calls[t] = <<>>

\* One call returned 1 after its work delivered a row and another returned 0
\* after its work found no row.
C18_Witness ==
    \E th, u \in Threads :
        /\ rpc[th] = "returned" /\ rfn[th] = "row_set_next_row"
        /\ rval[th] /\ rret[th] = 1
        /\ rpc[u] = "returned" /\ rfn[u] = "row_set_next_row"
        /\ ~rval[u] /\ rret[u] = 0

C20_ValueBytesStableDuringCallback ==
    \A th \in Threads :
        rpc[th] = "callback" =>
            /\ ~rsReleased[rtarget[th]]
            /\ pageVer[rtarget[th]] = cbVer[th]

\* C33: a call of a pager function made by a deserialize_value callback on
\* the row set the callback is called for, from the same thread, is never
\* left without return at the row set's lock (no self-deadlock), so every
\* call returns once the pager and the callbacks return.
C33_NoCallStuckOnItsOwnLock ==
    \A th \in Threads : rnest[th] # "stuck"

\* The indices of the columns of a row that hold a value, in order.
NonNullIndexes ==
    SelectSeq([k \in 1..Len(RowColumns) |-> k - 1],
              LAMBDA i : RowColumns[i + 1] = "value")

\* C34: a returned row_set_next_row gave 1 exactly when its work got a next
\* row, and then deserialize_value was called once for each column holding a
\* value, in increasing index order, and for no null column; it gave 0
\* exactly when the pager had no further row, and then no callback was
\* called.
C34_NextRowCodeAndCallbacks ==
    \A th \in Threads :
        (rpc[th] = "returned" /\ rfn[th] = "row_set_next_row") =>
            /\ (rret[th] = 1) <=> (rgot[th] = "row")
            /\ rret[th] = 1 => rcalls[th] = NonNullIndexes
            /\ (rret[th] = 0) <=> (rgot[th] = "end")
            /\ rret[th] = 0 => rcalls[th] = <<>>

\* ------------------------------------------- row serialization (serialize.rs)

MaxSerAllocs == 7
MaxWrites == 2
MaxSerRoots == 1
SerAddrs == 1..MaxSerAllocs

\* A byte count is kept as big * i32::MAX + small, with small far below
\* i32::MAX, so that counts around i32::MAX are exact.
Sz(b, s) == [big |-> b, small |-> s]
SzZero == Sz(0, 0)
SzAdd(x, y) == Sz(x.big + y.big, x.small + y.small)
SzLe(x, y) == x.big < y.big \/ (x.big = y.big /\ x.small <= y.small)
SzMax(x, y) == IF SzLe(x, y) THEN y ELSE x
SzDouble(x) == SzAdd(x, x)
\* contents.len().try_into::<i32>() fails
ExceedsI32Max(x) == x.big > 1 \/ (x.big = 1 /\ x.small > 0)
\* The lengths the foreign side passes: 0, 1, i32::MAX and i32::MAX + 1.
SerLens == {Sz(0, 0), Sz(0, 1), Sz(1, 0), Sz(1, 1)}

\* One heap allocation: a Box<RowWriter>, a Box<Vec<u8>>, the byte buffer of a
\* Vec, a Box<CellWriter>, a Box<CellValueBuilder> or a Box<SerializedRow>.
\* by is the exported function that made it, root the RowWriter or
\* SerializedRow it was made for, rel the number of times it was released.
NoCell ==
    [kind |-> "none", st |-> "unused", by |-> "none", root |-> 0, rel |-> 0,
     vec |-> 0, buf |-> 0, len |-> SzZero, cap |-> SzZero,
     written |-> SzZero, leaked |-> 0]

VARIABLES mem, nextMem, writes, handed, slast

serVars == <<mem, nextMem, writes, handed, slast>>

NoSerCall ==
    [fn |-> "none", ptr |-> 0, ret |-> 0, out |-> 0, outLen |-> SzZero,
     noData |-> FALSE, total |-> SzZero]

SerCall(fn, p, ret) == [NoSerCall EXCEPT !.fn = fn, !.ptr = p, !.ret = ret]

\* The handles of a kind the foreign side holds and has not given back, and
\* the null pointer.
SerHandles(k) ==
    {0} \cup {a \in SerAddrs : mem[a].kind = k /\ mem[a].st = "live"}

SerRoom(n) == nextMem + n <= MaxSerAllocs + 1

\* The RowWriters made by row_writer_new and the SerializedRows.
SerRoots == {a \in SerAddrs : mem[a].kind # "none" /\ mem[a].root = a}

SerAlloc(m, a, k, by, root) ==
    [m EXCEPT ![a] = [NoCell EXCEPT !.kind = k, !.st = "live", !.by = by,
                                    !.root = root]]

\* Box::from_raw(..) dropped, or the buffer of a dropped Vec deallocated.
SerRelease(m, a) == [m EXCEPT ![a].st = "released", ![a].rel = @ + 1]

\* Vec::extend_from_slice needs a larger buffer.
VecGrows(m, v, n) == ~SzLe(SzAdd(m[v].len, n), m[v].cap)

\* What a reallocation may do: nothing moves when the Vec has room or has no
\* buffer yet; a grown buffer moves or is extended in place.
Moves(m, v, n) ==
    IF VecGrows(m, v, n) /\ m[v].buf # 0 THEN BOOLEAN ELSE {FALSE}

\* A fresh block is taken: the first buffer of the Vec, or a reallocation
\* that moves.
VecTakes(m, v, n, mv) == VecGrows(m, v, n) /\ (m[v].buf = 0 \/ mv)

\* Vec::extend_from_slice of n bytes on the Vec at v: amortized growth (twice
\* the capacity, at least what is needed, at least 8 bytes); the reallocation
\* moves the bytes to block a or extends the block in place.
VecExtend(m, v, n, mv, a, by) ==
    LET need == SzAdd(m[v].len, n)
        cap2 == SzMax(SzMax(SzDouble(m[v].cap), need), Sz(0, 8))
    IN  IF ~VecGrows(m, v, n) THEN [m EXCEPT ![v].len = need]
        ELSE IF m[v].buf = 0
        THEN [SerAlloc(m, a, "Buffer", by, m[v].root) EXCEPT
                  ![v].buf = a, ![v].len = need, ![v].cap = cap2]
        ELSE IF mv
        THEN [SerAlloc(SerRelease(m, m[v].buf), a, "Buffer", by, m[v].root)
                  EXCEPT ![v].buf = a, ![v].len = need, ![v].cap = cap2]
        ELSE [m EXCEPT ![v].len = need, ![v].cap = cap2]

\* drop(Vec): the buffer is deallocated when the capacity is not zero.
VecDrop(m, buf, cap) ==
    IF cap = SzZero \/ buf = 0 THEN m ELSE SerRelease(m, buf)

\* The Vec a writer writes to is still allocated.
SerWritable(c) == c # 0 => mem[mem[c].vec].st = "live"

\* row_writer_new (serialize.rs:13-18): a boxed empty Vec is leaked and a
\* boxed RowWriter over it is returned.
row_writer_new ==
    /\ SerRoom(2)
    /\ Cardinality(SerRoots) < MaxSerRoots
    /\ LET v == nextMem
           w == nextMem + 1
           m1 == SerAlloc(mem, v, "Vec", "row_writer_new", w)
           m2 == SerAlloc(m1, w, "RowWriter", "row_writer_new", w)
       IN  /\ mem' = [m2 EXCEPT ![w].vec = v]
           /\ slast' = SerCall("row_writer_new", 0, w)
    /\ nextMem' = nextMem + 2
    /\ UNCHANGED <<writes, handed>>

\* row_writer_free (serialize.rs:21-29): the RowWriter box is dropped.
row_writer_free(p) ==
    /\ p \in SerHandles("RowWriter")
    /\ mem' = IF p = 0 THEN mem ELSE SerRelease(mem, p)
    /\ slast' = SerCall("row_writer_free", p, 0)
    /\ UNCHANGED <<nextMem, writes, handed>>

\* row_writer_make_cell_writer (serialize.rs:51-61)
row_writer_make_cell_writer(p) ==
    /\ p \in SerHandles("RowWriter")
    /\ SerWritable(p)
    /\ IF p = 0
       THEN /\ slast' = SerCall("row_writer_make_cell_writer", p, 0)
            /\ UNCHANGED <<mem, nextMem>>
       ELSE /\ SerRoom(1)
            /\ mem' = [SerAlloc(mem, nextMem, "CellWriter",
                                "row_writer_make_cell_writer", mem[p].root)
                          EXCEPT ![nextMem].vec = mem[p].vec]
            /\ nextMem' = nextMem + 1
            /\ slast' = SerCall("row_writer_make_cell_writer", p, nextMem)
    /\ UNCHANGED <<writes, handed>>

\* cell_writer_set_null and cell_writer_set_unset (serialize.rs:69-93): the
\* CellWriter is taken out of its box and writes a 4-byte marker.
SetMarker(fn, c) ==
    /\ c \in SerHandles("CellWriter")
    /\ SerWritable(c)
    /\ IF c = 0
       THEN /\ slast' = SerCall(fn, c, 0)
            /\ UNCHANGED <<mem, nextMem, writes>>
       ELSE /\ writes < MaxWrites
            /\ SerRoom(1)
            /\ \E mv \in Moves(mem, mem[c].vec, Sz(0, 4)) :
                  /\ mem' = VecExtend(SerRelease(mem, c), mem[c].vec,
                                      Sz(0, 4), mv, nextMem, fn)
                  /\ nextMem' = IF VecTakes(mem, mem[c].vec, Sz(0, 4), mv)
                                THEN nextMem + 1 ELSE nextMem
            /\ writes' = writes + 1
            /\ slast' = SerCall(fn, c, 1)
    /\ UNCHANGED handed

cell_writer_set_null(c) == SetMarker("cell_writer_set_null", c)

cell_writer_set_unset(c) == SetMarker("cell_writer_set_unset", c)

\* cell_writer_set_value (serialize.rs:100-126): the data check comes before
\* Box::from_raw; CellWriter::set_value writes the length and the bytes, or
\* fails without writing when the length does not fit an i32.
cell_writer_set_value(c, dataNull, len) ==
    /\ c \in SerHandles("CellWriter")
    /\ SerWritable(c)
    /\ IF c = 0
       THEN /\ slast' = SerCall("cell_writer_set_value", c, 0)
            /\ UNCHANGED <<mem, nextMem, writes>>
       ELSE IF dataNull /\ len # SzZero
       THEN /\ slast' = [SerCall("cell_writer_set_value", c, 0) EXCEPT
                            !.noData = TRUE]
            /\ UNCHANGED <<mem, nextMem, writes>>
       ELSE IF ExceedsI32Max(len)
       THEN /\ mem' = SerRelease(mem, c)
            /\ slast' = SerCall("cell_writer_set_value", c, -1)
            /\ UNCHANGED <<nextMem, writes>>
       ELSE /\ writes < MaxWrites
            /\ SerRoom(2)
            /\ LET v == mem[c].vec
                   m0 == SerRelease(mem, c)
               IN  \E mv1 \in Moves(m0, v, Sz(0, 4)) :
                     LET m1 == VecExtend(m0, v, Sz(0, 4), mv1, nextMem,
                                         "cell_writer_set_value")
                         n1 == IF VecTakes(m0, v, Sz(0, 4), mv1)
                               THEN nextMem + 1 ELSE nextMem
                     IN  \E mv2 \in Moves(m1, v, len) :
                           /\ mem' = VecExtend(m1, v, len, mv2, n1,
                                               "cell_writer_set_value")
                           /\ nextMem' = IF VecTakes(m1, v, len, mv2)
                                         THEN n1 + 1 ELSE n1
            /\ writes' = writes + 1
            /\ slast' = SerCall("cell_writer_set_value", c, 1)
    /\ UNCHANGED handed

\* cell_writer_into_value_builder (serialize.rs:131-141): the CellWriter is
\* consumed, a 4-byte length placeholder is written and a boxed builder is
\* returned.
cell_writer_into_value_builder(c) ==
    /\ c \in SerHandles("CellWriter")
    /\ SerWritable(c)
    /\ IF c = 0
       THEN /\ slast' = SerCall("cell_writer_into_value_builder", c, 0)
            /\ UNCHANGED <<mem, nextMem, writes>>
       ELSE /\ writes < MaxWrites
            /\ SerRoom(2)
            /\ \E mv \in Moves(mem, mem[c].vec, Sz(0, 4)) :
               LET v == mem[c].vec
                   m0 == SerRelease(mem, c)
                   m1 == VecExtend(m0, v, Sz(0, 4), mv, nextMem,
                                   "cell_writer_into_value_builder")
                   b == IF VecTakes(m0, v, Sz(0, 4), mv)
                        THEN nextMem + 1 ELSE nextMem
               IN  /\ mem' = [SerAlloc(m1, b, "CellValueBuilder",
                                       "cell_writer_into_value_builder",
                                       mem[c].root)
                                 EXCEPT ![b].vec = v]
                   /\ nextMem' = b + 1
                   /\ slast' = SerCall("cell_writer_into_value_builder", c, b)
            /\ writes' = writes + 1
    /\ UNCHANGED handed

\* cell_value_builder_append (serialize.rs:152-176): after the two null
\* checks the bytes are appended and 1 is returned.
cell_value_builder_append(b, dataNull, len) ==
    /\ b \in SerHandles("CellValueBuilder")
    /\ SerWritable(b)
    /\ IF b = 0
       THEN /\ slast' = SerCall("cell_value_builder_append", b, 0)
            /\ UNCHANGED <<mem, nextMem, writes>>
       ELSE IF dataNull /\ len # SzZero
       THEN /\ slast' = [SerCall("cell_value_builder_append", b, 0) EXCEPT
                            !.noData = TRUE,
                            !.total = SzAdd(mem[b].written, len)]
            /\ UNCHANGED <<mem, nextMem, writes>>
       ELSE /\ writes < MaxWrites
            /\ SerRoom(1)
            /\ \E mv \in Moves(mem, mem[b].vec, len) :
                  /\ mem' = [VecExtend(mem, mem[b].vec, len, mv, nextMem,
                                       "cell_value_builder_append")
                                EXCEPT ![b].written = SzAdd(@, len)]
                  /\ nextMem' = IF VecTakes(mem, mem[b].vec, len, mv)
                                THEN nextMem + 1 ELSE nextMem
            /\ writes' = writes + 1
            /\ slast' = [SerCall("cell_value_builder_append", b, 1) EXCEPT
                            !.total = SzAdd(mem[b].written, len)]
    /\ UNCHANGED handed

\* cell_value_builder_finish (serialize.rs:180-190): the builder is taken out
\* of its box; what finish() returns is dropped.
cell_value_builder_finish(b) ==
    /\ b \in SerHandles("CellValueBuilder")
    /\ SerWritable(b)
    /\ mem' = IF b = 0 THEN mem ELSE SerRelease(mem, b)
    /\ slast' = SerCall("cell_value_builder_finish", b, IF b = 0 THEN 0 ELSE 1)
    /\ UNCHANGED <<nextMem, writes, handed>>

\* serialized_row_new (serialize.rs:209-220): the parts of an empty Vec and a
\* null leaked_vec.
serialized_row_new ==
    /\ SerRoom(1)
    /\ Cardinality(SerRoots) < MaxSerRoots
    /\ mem' = SerAlloc(mem, nextMem, "SerializedRow", "serialized_row_new",
                       nextMem)
    /\ nextMem' = nextMem + 1
    /\ slast' = SerCall("serialized_row_new", 0, nextMem)
    /\ UNCHANGED <<writes, handed>>

\* serialized_row_get_writer (serialize.rs:225-258): a Vec is rebuilt from
\* the stored parts and boxed, the row's parts are stored again from it,
\* leaked_vec is set to the new box and a boxed RowWriter over it is
\* returned.
serialized_row_get_writer(r) ==
    /\ r \in SerHandles("SerializedRow")
    /\ IF r = 0
       THEN /\ slast' = SerCall("serialized_row_get_writer", r, 0)
            /\ UNCHANGED <<mem, nextMem>>
       ELSE /\ SerRoom(2)
            /\ LET v == nextMem
                   w == nextMem + 1
                   m1 == [SerAlloc(mem, v, "Vec", "serialized_row_get_writer", r)
                             EXCEPT ![v].buf = mem[r].buf,
                                    ![v].len = mem[r].len,
                                    ![v].cap = mem[r].cap]
                   m2 == [SerAlloc(m1, w, "RowWriter",
                                   "serialized_row_get_writer", r)
                             EXCEPT ![w].vec = v]
               IN  mem' = [m2 EXCEPT ![r].buf = m1[v].buf,
                                     ![r].len = m1[v].len,
                                     ![r].cap = m1[v].cap,
                                     ![r].leaked = v]
            /\ nextMem' = nextMem + 2
            /\ slast' = SerCall("serialized_row_get_writer", r, nextMem + 1)
    /\ UNCHANGED <<writes, handed>>

\* serialized_row_get_data (serialize.rs:265-290): the pointer and length of
\* the leaked Vec, or the stored parts when there is none.
serialized_row_get_data(r, outNull) ==
    /\ r \in SerHandles("SerializedRow")
    /\ IF r = 0 \/ outNull
       THEN /\ slast' = SerCall("serialized_row_get_data", r, 0)
            /\ UNCHANGED handed
       ELSE LET src == IF mem[r].leaked # 0 THEN mem[r].leaked ELSE r
            IN  /\ slast' = [SerCall("serialized_row_get_data", r, 1) EXCEPT
                                !.out = mem[src].buf, !.outLen = mem[src].len]
                /\ handed' = handed \cup
                       {[row |-> r, ptr |-> mem[src].buf, len |-> mem[src].len]}
    /\ UNCHANGED <<mem, nextMem, writes>>

\* serialized_row_free (serialize.rs:293-309): the row box is dropped, then
\* the leaked Vec box with its buffer, or a Vec rebuilt from the stored
\* parts.
serialized_row_free(r) ==
    /\ r \in SerHandles("SerializedRow")
    /\ mem' = IF r = 0 THEN mem
              ELSE IF mem[r].leaked # 0
              THEN LET v == mem[r].leaked
                   IN  VecDrop(SerRelease(SerRelease(mem, r), v),
                               mem[v].buf, mem[v].cap)
              ELSE VecDrop(SerRelease(mem, r), mem[r].buf, mem[r].cap)
    /\ slast' = SerCall("serialized_row_free", r, 0)
    /\ UNCHANGED <<nextMem, writes, handed>>

\* C23: once a RowWriter made by row_writer_new has been given to
\* row_writer_free, no allocation made by that row_writer_new call remains
\* live: the RowWriter and its backing buffer are both released.
C23_WriterFreeReleasesItsBuffer ==
    \A w \in SerAddrs :
        (mem[w].kind = "RowWriter" /\ mem[w].by = "row_writer_new"
            /\ mem[w].st = "released") =>
            \A a \in SerAddrs :
                (mem[a].by = "row_writer_new" /\ mem[a].root = w) =>
                    mem[a].st = "released"

\* C24: no buffer allocation is released twice, no two live Vecs own the
\* same buffer, and after serialized_row_free every Vec box and byte buffer
\* made for that row, by any number of serialized_row_get_writer calls, has
\* been released exactly once.
C24_RowBuffersReleasedExactlyOnce ==
    /\ \A a \in SerAddrs : mem[a].rel <= 1
    /\ \A v, u \in SerAddrs :
          (v # u /\ mem[v].kind = "Vec" /\ mem[u].kind = "Vec"
              /\ mem[v].st = "live" /\ mem[u].st = "live"
              /\ mem[v].buf # 0) => mem[v].buf # mem[u].buf
    /\ \A r \in SerAddrs :
          (mem[r].kind = "SerializedRow" /\ mem[r].st = "released") =>
              \A a \in SerAddrs :
                  (mem[a].root = r /\ mem[a].kind \in {"Vec", "Buffer"}) =>
                      mem[a].rel = 1

\* C25: a data pointer handed out by serialized_row_get_data points to live
\* bytes for as long as its row has not been freed, and what a successful
\* call returns is the buffer and length of the Vec the row's writer writes
\* to, or the stored empty values when no writer was obtained (rows with
\* several writers are the case of C24).
C25_RowDataValidUntilRowFree ==
    /\ \A g \in handed :
          (mem[g.row].st = "live" /\ g.ptr # 0) => mem[g.ptr].st = "live"
    /\ (slast.fn = "serialized_row_get_data" /\ slast.ret = 1) =>
          LET vecs == {v \in SerAddrs : mem[v].kind = "Vec"
                                         /\ mem[v].root = slast.ptr}
          IN  IF vecs = {}
              THEN slast.out = 0 /\ slast.outLen = SzZero
              ELSE Cardinality(vecs) = 1 =>
                      \A v \in vecs :
                          /\ slast.out = mem[v].buf
                          /\ slast.outLen = mem[v].len

\* C26: a CellWriter or builder handle is never released twice, and after
\* cell_writer_set_null, cell_writer_set_unset, cell_writer_set_value or
\* cell_writer_into_value_builder was called with a non-null writer, that
\* handle has been consumed, whatever code the call returned.
C26_CellWriterConsumedByEachCall ==
    /\ \A a \in SerAddrs :
          mem[a].kind \in {"CellWriter", "CellValueBuilder"} =>
              mem[a].rel <= 1
    /\ (slast.fn \in {"cell_writer_set_null", "cell_writer_set_unset",
                      "cell_writer_set_value",
                      "cell_writer_into_value_builder"}
          /\ slast.ptr # 0) => mem[slast.ptr].st = "released"

\* C27: cell_value_builder_append returns 0 for a null builder or for null
\* data with a non-zero length, -1 when the value would grow beyond i32::MAX
\* bytes, and 1 otherwise.
C27_AppendReturnCodes ==
    slast.fn = "cell_value_builder_append" =>
        slast.ret = IF slast.ptr = 0 \/ slast.noData THEN 0
                    ELSE IF ExceedsI32Max(slast.total) THEN -1
                    ELSE 1

\* ------------------- value counts (pre_serialized_values.rs:11-33)

MAX_VALUES_LENGTH == 65535
MaxCountSlack == 5
\* Numbers of values and of columns: small ones and ones around the limit.
ColCounts ==
    (0..MaxCountSlack)
        \cup ((MAX_VALUES_LENGTH - MaxCountSlack)
                  ..(MAX_VALUES_LENGTH + MaxCountSlack))

VARIABLES vlast

valVars == <<vlast>>

\* A faulty validation that compares the counts before the limit.
validate_number_of_columns_count_first(rust_cols, cql_cols) ==
    IF rust_cols # cql_cols THEN "WrongColumnCount"
    ELSE IF rust_cols > MAX_VALUES_LENGTH THEN "TooManyValues"
    ELSE "Ok"

\* validate_number_of_columns, with the context given by its number of
\* columns; the result is Ok or the kind of the SerializationError.
validate_number_of_columns(rust_cols, cql_cols) ==
    IF rust_cols > MAX_VALUES_LENGTH THEN "TooManyValues"
    ELSE IF rust_cols # cql_cols THEN "WrongColumnCount"
    ELSE "Ok"

\* A caller validates rust_cols values against a context of cql_cols columns.
ValidateCall(rust_cols, cql_cols) ==
    vlast' = [fn |-> "validate_number_of_columns", rust_cols |-> rust_cols,
              cql_cols |-> cql_cols,
              res |-> validate_number_of_columns(rust_cols, cql_cols)]

\* C28: validate_number_of_columns returns Ok exactly when the number of
\* values equals the number of columns and is at most 65535; more than 65535
\* values give the too-many-values error whatever the number of columns, and
\* any other mismatch gives the wrong-column-count error.
C28_ValidateNumberOfColumns ==
    vlast.fn = "validate_number_of_columns" =>
        /\ (vlast.res = "Ok") <=>
               (vlast.rust_cols = vlast.cql_cols /\ vlast.rust_cols <= 65535)
        /\ vlast.rust_cols > 65535 => vlast.res = "TooManyValues"
        /\ (vlast.rust_cols <= 65535 /\ vlast.rust_cols # vlast.cql_cols) =>
               vlast.res = "WrongColumnCount"

\* Too many values and a different number of columns at once.
C28_Witness ==
    /\ vlast.fn = "validate_number_of_columns"
    /\ vlast.rust_cols = 65536
    /\ vlast.cql_cols = 65535
    /\ vlast.res = "TooManyValues"

\* ------------------ column metadata (row_set.rs:65-131)

MaxColumns == 2
MaxFills == 2
\* The column specs a pager can have: every list of up to MaxColumns types.
ColumnLists ==
    UNION {[1..n -> ColumnTypes] : n \in 0..MaxColumns}

VARIABLES fpc, fcols, fidx, fcalls, fret, fnext, fgiven, fills

fillVars == <<fpc, fcols, fidx, fcalls, fret, fnext, fgiven, fills>>

\* A faulty handle that boxes the type of every column.
TypeInfoHandleForEveryType(code, a) == FromRaw(a, "ColumnType")

\* type_info_handle (row_set.rs:106-110): null, or for a type code from
\* 0x0020 on the pointer of a new Box holding a clone of the type, at
\* address a.
TypeInfoHandle(code, a) ==
    IF code >= 32 THEN FromRaw(a, "ColumnType") ELSE NullPtr("ColumnType")

\* row_set_fill_columns_metadata is entered on a row set whose pager has the
\* column specs cols: as_ref, lock, and the loop starts.
FillEnter(cols) ==
    /\ fpc \in {"idle", "returned"}
    /\ fills < MaxFills
    /\ fills' = fills + 1
    /\ fpc' = "loop"
    /\ fcols' = cols
    /\ fidx' = 0
    /\ fcalls' = <<>>
    /\ fret' = 0
    /\ UNCHANGED <<fnext, fgiven>>

\* One iteration of the loop: the type code, the handle, and the call of
\* set_metadata with the index of the column.
FillSetMetadata ==
    /\ fpc = "loop"
    /\ fidx < Len(fcols)
    /\ LET code == column_type_to_code(fcols[fidx + 1])
           h == TypeInfoHandle(code, fnext)
       IN  /\ fcalls' = Append(fcalls,
                  [value_index |-> fidx, type_code |-> code,
                   type_info_handle |-> h,
                   fresh |-> IsNull(h) \/ h \notin fgiven])
           /\ fgiven' = IF IsNull(h) THEN fgiven ELSE fgiven \cup {h}
           /\ fnext' = IF IsNull(h) THEN fnext ELSE fnext + 1
    /\ fidx' = fidx + 1
    /\ UNCHANGED <<fpc, fcols, fret, fills>>

\* The loop is over: the lock guard is dropped and 1 is returned.
FillReturn ==
    /\ fpc = "loop"
    /\ fidx = Len(fcols)
    /\ fpc' = "returned"
    /\ fret' = 1
    /\ UNCHANGED <<fcols, fidx, fcalls, fnext, fgiven, fills>>

\* C29: the calls of set_metadata made by one row_set_fill_columns_metadata
\* call carry the indices 0, 1, 2, ... in that order with the type code of
\* that column, and when the function has returned, with 1, there has been
\* exactly one call per column; the handle passed is null for a type code
\* below 0x0020 and otherwise a non-null pointer never handed out before.
C29_OneMetadataCallPerColumnInOrder ==
    /\ Len(fcalls) <= Len(fcols)
    /\ \A k \in 1..Len(fcalls) :
          /\ fcalls[k].value_index = k - 1
          /\ fcalls[k].type_code = column_type_to_code(fcols[k])
          /\ IsNull(fcalls[k].type_info_handle) <=> fcalls[k].type_code < 32
          /\ fcalls[k].fresh
          /\ \A j \in 1..Len(fcalls) :
                (j # k /\ ~IsNull(fcalls[k].type_info_handle)) =>
                    fcalls[j].type_info_handle # fcalls[k].type_info_handle
    /\ fpc = "returned" => (fret = 1 /\ Len(fcalls) = Len(fcols))

\* A second call has returned after two columns, one with a handle and one
\* without.
C29_Witness ==
    /\ fpc = "returned"
    /\ fills = 2
    /\ Len(fcalls) = 2
    /\ IsNull(fcalls[1].type_info_handle)
    /\ ~IsNull(fcalls[2].type_info_handle)
    /\ fgiven # {fcalls[2].type_info_handle}

\* ---------------------------------------------------------- specifications
\* Every part of the library starts from the state after loading; each
\* specification runs the calls of one part and leaves the rest alone.

allVars == <<vars, boxVars, borrowVars, rtVars, weakVars, rsVars, serVars, valVars, fillVars, tiVars>>

Init ==
    /\ pc = [t \in Tasks |-> "unused"]
    /\ kind = [t \in Tasks |-> "none"]
    /\ arg = [t \in Tasks |-> NullPtr("BridgedSession")]
    /\ holds = [t \in Tasks |-> None]
    /\ result = [t \in Tasks |-> NoResult]
    /\ calls = [t \in Tasks |-> <<>>]
    /\ heap = [a \in Addrs |-> FreeCell]
    /\ nextAddr = 1
    /\ owned = {}
    /\ freeCalled = {}
    /\ incLive = [t \in Tasks |-> "none"]
    /\ box = [a \in BoxAddrs |-> NoBox]
    /\ nextBox = 1
    /\ known = {}
    /\ imported = {}
    /\ inflight = {}
    /\ last = [fn |-> "none", ptr |-> NoHandle, bad |-> FALSE, ret |-> 0,
               fault |-> "none", stale |-> FALSE, out |-> NoHandle]
    /\ crashed = FALSE
    /\ drops = [a \in BoxAddrs |-> <<>>]
    /\ child = NoChild
    /\ ownerSt = [o \in Owners |-> "held"]
    /\ reborrow = [i \in Reborrows |-> NoReborrow]
    /\ lastUse = [ptr |-> 0, owner |-> "held"]
    /\ moved = {}
    /\ once = "incomplete"
    /\ created = 0
    /\ initBy = 0
    /\ tpc = [th \in Threads |-> "idle"]
    /\ tkind = [th \in Threads |-> "none"]
    /\ trt = [th \in Threads |-> 0]
    /\ ranOn = {}
    /\ rtAbort = FALSE
    /\ wstrong = Cardinality(WeakOwners)
    /\ wdropped = FALSE
    /\ wheld = WeakOwners
    /\ wpc = [th \in Threads |-> "idle"]
    /\ wexpired = [th \in Threads |-> FALSE]
    /\ wret = [th \in Threads |-> NullPtr("RefObject")]
    /\ wlive = [th \in Threads |-> TRUE]
    /\ rsStrong = [r \in RowSets |-> 1]
    /\ rsFreed = [r \in RowSets |-> FALSE]
    /\ rsReleased = [r \in RowSets |-> FALSE]
    /\ mutex = [r \in RowSets |-> 0]
    /\ rows = [r \in RowSets |-> MaxRows]
    /\ pageVer = [r \in RowSets |-> 0]
    /\ rpc = [th \in Threads |-> "idle"]
    /\ rfn = [th \in Threads |-> "none"]
    /\ rtarget = [th \in Threads |-> 1]
    /\ rcol = [th \in Threads |-> 0]
    /\ rdone = [th \in Threads |-> FALSE]
    /\ rval = [th \in Threads |-> FALSE]
    /\ rret = [th \in Threads |-> 0]
    /\ cbVer = [th \in Threads |-> 0]
    /\ rgot = [th \in Threads |-> "none"]
    /\ rcalls = [th \in Threads |-> <<>>]
    /\ rnest = [th \in Threads |-> "none"]
    /\ mem = [a \in SerAddrs |-> NoCell]
    /\ nextMem = 1
    /\ writes = 0
    /\ handed = {}
    /\ slast = NoSerCall
    /\ vlast = [fn |-> "none", rust_cols |-> 0, cql_cols |-> 0, res |-> "none"]
    /\ fpc = "idle"
    /\ fcols = <<>>
    /\ fidx = 0
    /\ fcalls = <<>>
    /\ fret = 0
    /\ fnext = 1
    /\ fgiven = {}
    /\ fills = 0

\* The task bridge with the shared heap and the session calls.
bridgeIdle == <<boxVars, borrowVars, rtVars, weakVars, rsVars, serVars, valVars, fillVars, tiVars>>

Next ==
    \/ \E t \in Tasks : SessionCreate(t) /\ UNCHANGED bridgeIdle
    \/ \E t \in Tasks, p \in owned :
          SessionPrepareEnter(t, p) /\ UNCHANGED bridgeIdle
    \/ \E t \in Tasks, p \in owned :
          SessionQueryEnter(t, p) /\ UNCHANGED bridgeIdle
    \/ \E t \in Tasks : SessionCloneAndSpawn(t) /\ UNCHANGED bridgeIdle
    \/ \E p \in owned, g \in Garbage : SessionFree(p, g) /\ UNCHANGED bridgeIdle
    \/ \E p \in owned, g \in Garbage : RowSetFree(p, g) /\ UNCHANGED bridgeIdle
    \/ \E a \in Addrs : RunDropSlow(a) /\ UNCHANGED bridgeIdle
    \/ \E t \in Tasks, o \in Outcomes, g \in Garbage :
          Settle(t, o, g) /\ UNCHANGED bridgeIdle
    \/ \E t \in Tasks : ReportOk(t) /\ UNCHANGED bridgeIdle
    \/ \E t \in Tasks : ReportFail(t) /\ UNCHANGED bridgeIdle
    \/ \E t \in Tasks : ReportUnwrapPanics(t) /\ UNCHANGED bridgeIdle

Spec == Init /\ [][Next]_allVars

\* The exported functions over exclusive-heap objects.
boxIdle == <<vars, borrowVars, rtVars, weakVars, rsVars, serVars, valVars, fillVars>>

BoxNext ==
    \/ pre_serialized_values_new
          /\ child' = NoChild /\ UNCHANGED <<drops, boxIdle>>
    \/ \E p \in Passable("PreSerializedValues"),
          k \in {"pre_serialized_values_add_value",
                 "pre_serialized_values_add_null",
                 "pre_serialized_values_add_unset"} :
          pre_serialized_values_add(p, k)
          /\ child' = NoChild /\ UNCHANGED <<drops, boxIdle>>
    \/ \E n \in BOOLEAN, p \in Passable("PreSerializedValues") :
          session_query_with_values(n, p)
          /\ child' = NoChild /\ UNCHANGED <<drops, boxIdle>>
    \/ \E a \in BoxAddrs, o \in WorkOutcomes :
          QueryWorkSettles(a, o) /\ UNCHANGED <<child, boxIdle>>
    \/ \E ct \in ColumnTypes : TypeInfoExport(ct)
          /\ child' = NoChild /\ UNCHANGED <<drops, boxIdle>>
    \/ \E p \in Passable("ColumnType") :
          row_set_type_info_free(p)
          /\ child' = NoChild /\ UNCHANGED <<drops, boxIdle>>
    \/ \E p \in Passable("ColumnType"), g \in ColumnTypes :
          row_set_type_info_get_code(p, g)
          /\ child' = NoChild /\ UNCHANGED <<drops, boxIdle>>
    \/ \E p \in Passable("ColumnType"), g \in ColumnTypes,
          i \in 0..2, o \in BOOLEAN :
          row_set_type_info_get_tuple_field(p, g, i, o)
             /\ UNCHANGED <<drops, boxIdle>>
    \/ \E p \in Passable("ColumnType"), g \in ColumnTypes, o \in BOOLEAN :
          row_set_type_info_get_udt_name(p, g, o)
          /\ child' = NoChild /\ UNCHANGED <<drops, boxIdle>>

BoxSpec == Init /\ [][BoxNext]_allVars

\* Native code reborrowing, peeking, using and freeing pointers.
borrowIdle == <<vars, boxVars, rtVars, weakVars, rsVars, serVars, valVars, fillVars, tiVars>>

BorrowNext ==
    \/ \E o \in Owners, i \in Reborrows : borrow(o, i) /\ UNCHANGED borrowIdle
    \/ \E o \in Owners, i \in Reborrows :
          borrow_mut(o, i) /\ UNCHANGED borrowIdle
    \/ \E o \in Owners, i \in Reborrows : as_ptr(o, i) /\ UNCHANGED borrowIdle
    \/ \E i \in Reborrows : UseBorrowed(i) /\ UNCHANGED borrowIdle
    \/ \E i \in Reborrows : EndLifetime(i) /\ UNCHANGED borrowIdle
    \/ \E p \in Pointers : MoveOwner(p) /\ UNCHANGED borrowIdle

BorrowSpec == Init /\ [][BorrowNext]_allVars

\* Foreign threads making calls that use the runtime.
rtIdle == <<vars, boxVars, borrowVars, weakVars, rsVars, serVars, valVars, fillVars, tiVars>>

RuntimeNext ==
    \/ \E th \in Threads, k \in {"spawn", "block_on"} :
          BridgeCall(th, k) /\ UNCHANGED rtIdle
    \/ \E th \in Threads : ForceStartsInit(th) /\ UNCHANGED rtIdle
    \/ \E th \in Threads, ok \in BOOLEAN : RunInit(th, ok) /\ UNCHANGED rtIdle
    \/ \E th \in Threads : ForceReads(th) /\ UNCHANGED rtIdle
    \/ \E th \in Threads : RunOnRuntime(th) /\ UNCHANGED rtIdle

RuntimeSpec == Init /\ [][RuntimeNext]_allVars

\* Threads calling weak_as_ptr while the owners drop the object.
weakIdle == <<vars, boxVars, borrowVars, rtVars, rsVars, serVars, valVars, fillVars, tiVars>>

WeakNext ==
    \/ \E o \in WeakOwners : OwnerDrops(o) /\ UNCHANGED weakIdle
    \/ \E th \in Threads : WeakAsPtrEnter(th) /\ UNCHANGED weakIdle
    \/ \E th \in Threads : WeakAsPtrUpgrade(th) /\ UNCHANGED weakIdle
    \/ \E th \in Threads : WeakAsPtrSome(th) /\ UNCHANGED weakIdle
    \/ \E th \in Threads : WeakAsPtrNone(th) /\ UNCHANGED weakIdle

WeakSpec == Init /\ [][WeakNext]_allVars

\* Foreign threads calling the row set functions.
rsIdle == <<vars, boxVars, borrowVars, rtVars, weakVars, serVars, valVars, fillVars, tiVars>>

RowSetNext ==
    \/ \E th \in Threads, f \in PagerFns, r \in RowSets :
          RsEnter(th, f, r) /\ UNCHANGED rsIdle
    \/ \E th \in Threads : RsLock(th) /\ UNCHANGED rsIdle
    \/ \E th \in Threads : RsReadColumns(th) /\ UNCHANGED rsIdle
    \/ \E th \in Threads, fails \in BOOLEAN :
          WorkFetch(th, fails) /\ UNCHANGED rsIdle
    \/ \E th \in Threads, f \in PagerFns :
          CallbackCallsBack(th, f) /\ UNCHANGED rsIdle
    \/ \E th \in Threads, free \in BOOLEAN :
          NestedLock(th, free) /\ UNCHANGED rsIdle
    \/ \E th \in Threads : WorkCallbackBegins(th) /\ UNCHANGED rsIdle
    \/ \E th \in Threads : WorkCallbackEnds(th) /\ UNCHANGED rsIdle
    \/ \E th \in Threads : WorkSkipsNull(th) /\ UNCHANGED rsIdle
    \/ \E th \in Threads : WorkRowDone(th) /\ UNCHANGED rsIdle
    \/ \E th \in Threads : NextRowReturns(th) /\ UNCHANGED rsIdle
    \/ \E th \in Threads, r \in RowSets :
          RowSetFreeCall(th, r) /\ UNCHANGED rsIdle
    \/ \E th \in Threads : RowSetDropped(th) /\ UNCHANGED rsIdle

RowSetSpec == Init /\ [][RowSetNext]_allVars

\* The foreign side building rows through the writer functions.
serIdle == <<vars, boxVars, borrowVars, rtVars, weakVars, rsVars, valVars, fillVars, tiVars>>

SerNext ==
    \/ row_writer_new /\ UNCHANGED serIdle
    \/ \E p \in SerHandles("RowWriter") :
          row_writer_free(p) /\ UNCHANGED serIdle
    \/ \E p \in SerHandles("RowWriter") :
          row_writer_make_cell_writer(p) /\ UNCHANGED serIdle
    \/ \E c \in SerHandles("CellWriter") :
          cell_writer_set_null(c) /\ UNCHANGED serIdle
    \/ \E c \in SerHandles("CellWriter") :
          cell_writer_set_unset(c) /\ UNCHANGED serIdle
    \/ \E c \in SerHandles("CellWriter"), dn \in BOOLEAN, len \in SerLens :
          cell_writer_set_value(c, dn, len) /\ UNCHANGED serIdle
    \/ \E c \in SerHandles("CellWriter") :
          cell_writer_into_value_builder(c) /\ UNCHANGED serIdle
    \/ \E b \in SerHandles("CellValueBuilder"), dn \in BOOLEAN,
          len \in SerLens :
          cell_value_builder_append(b, dn, len) /\ UNCHANGED serIdle
    \/ \E b \in SerHandles("CellValueBuilder") :
          cell_value_builder_finish(b) /\ UNCHANGED serIdle
    \/ serialized_row_new /\ UNCHANGED serIdle
    \/ \E r \in SerHandles("SerializedRow") :
          serialized_row_get_writer(r) /\ UNCHANGED serIdle
    \/ \E r \in SerHandles("SerializedRow"), o \in BOOLEAN :
          serialized_row_get_data(r, o) /\ UNCHANGED serIdle
    \/ \E r \in SerHandles("SerializedRow") :
          serialized_row_free(r) /\ UNCHANGED serIdle

SerSpec == Init /\ [][SerNext]_allVars

\* Callers validating numbers of values.
valIdle == <<vars, boxVars, borrowVars, rtVars, weakVars, rsVars, serVars, fillVars, tiVars>>

ValidateNext ==
    \E n \in ColCounts, c \in ColCounts : ValidateCall(n, c) /\ UNCHANGED valIdle

ValidateSpec == Init /\ [][ValidateNext]_allVars

\* The foreign side reading the column metadata of a row set.
fillIdle == <<vars, boxVars, borrowVars, rtVars, weakVars, rsVars, serVars, valVars, tiVars>>

FillNext ==
    \/ \E cols \in ColumnLists : FillEnter(cols) /\ UNCHANGED fillIdle
    \/ FillSetMetadata /\ UNCHANGED fillIdle
    \/ FillReturn /\ UNCHANGED fillIdle

FillSpec == Init /\ [][FillNext]_allVars

\* The type information handles: the handles column metadata exports, and
\* every accessor and the free the foreign side may call on a handle it
\* holds; BoxSpec follows the calls on a handle it has given back.  The
\* handles are exported first, as row_set_fill_columns_metadata does for
\* the columns of a row set, at most MaxHandles of them.
TypeInfoNext ==
    \/ \E ct \in ColumnTypes :
          /\ nextBox <= MaxHandles
          /\ TypeInfoExport(ct)
          /\ child' = NoChild /\ UNCHANGED <<drops, boxIdle>>
    \/ \E p \in Held("ColumnType") :
          row_set_type_info_free(p)
          /\ child' = NoChild /\ UNCHANGED <<drops, boxIdle>>
    \/ \E p \in Held("ColumnType") : \E g \in ReadChoices(p) :
          row_set_type_info_get_code(p, g)
          /\ child' = NoChild /\ UNCHANGED <<drops, boxIdle>>
    \/ \E p \in Held("ColumnType") : \E g \in ReadChoices(p), o \in BOOLEAN :
          row_set_type_info_get_list_child(p, g, o)
          /\ UNCHANGED <<drops, boxIdle>>
    \/ \E p \in Held("ColumnType") : \E g \in ReadChoices(p), o \in BOOLEAN :
          row_set_type_info_get_set_child(p, g, o)
          /\ UNCHANGED <<drops, boxIdle>>
    \/ \E p \in Held("ColumnType") : \E g \in ReadChoices(p),
          ok \in BOOLEAN, ov \in BOOLEAN :
          row_set_type_info_get_map_children(p, g, ok, ov)
          /\ UNCHANGED <<drops, boxIdle>>
    \/ \E p \in Held("ColumnType") : \E g \in ReadChoices(p),
          i \in 0..2, o \in BOOLEAN :
          row_set_type_info_get_tuple_field(p, g, i, o)
          /\ UNCHANGED <<drops, boxIdle>>
    \/ \E p \in Held("ColumnType") : \E g \in ReadChoices(p),
          i \in 0..1, o \in BOOLEAN, n \in BOOLEAN :
          row_set_type_info_get_udt_field(p, g, i, o, n)
          /\ UNCHANGED <<drops, boxIdle>>
    \/ \E p \in Held("ColumnType") : \E g \in ReadChoices(p) :
          row_set_type_info_get_tuple_field_count(p, g)
          /\ UNCHANGED <<drops, boxIdle>>
    \/ \E p \in Held("ColumnType") : \E g \in ReadChoices(p) :
          row_set_type_info_get_udt_field_count(p, g)
          /\ UNCHANGED <<drops, boxIdle>>
    \/ \E p \in Held("ColumnType") : \E g \in ReadChoices(p), o \in BOOLEAN :
          row_set_type_info_get_udt_name(p, g, o)
          /\ child' = NoChild /\ UNCHANGED <<drops, boxIdle>>

TypeInfoSpec == Init /\ [][TypeInfoNext]_allVars

====
